---- MODULE Spec2Model ----
(***************************************************************************)
(* Hexerator: dirty-region tracking, save/reload, source accessors,        *)
(* perspective and view scrolling.                                         *)
(*                                                                         *)
(* The module holds several specifications over one set of variables:      *)
(*   SpecWiden   App::widen_dirty_region called with arbitrary arguments   *)
(*   Spec        the application: edits, save, auto-save, reload, load,    *)
(*               close, with every combination of the arguments            *)
(*   SpecFill    the application with selections and fills                 *)
(*   SpecDec     a Dec view whose text does not parse, with auto-save      *)
(*   SpecAccess  the read operations of the two source accessors           *)
(*   SpecOpen    SingleBufferAccessor::open_file_from_args                 *)
(*   SpecMut     the mutating operations of the two source accessors       *)
(*   SpecPersp   the column count, the region start, the view offsets      *)
(*   SpecScroll  scroll_impl called with arbitrary deltas                  *)
(*   SpecView    the scroll operations of a View                           *)
(*   SpecHit     View::row_col_offset_of_pos                               *)
(*   SpecEdit    characters typed into a view, with their history          *)
(*   SpecFind    the find dialog                                           *)
(* Each specification leaves the variables of the other groups untouched.  *)
(***************************************************************************)
EXTENDS Integers, Sequences, FiniteSets, TLC

VARIABLES
    \* ---- App (src/src/app.rs) ----
    data,           \* App.data : Vec<u8>, the in-memory buffer
    files,          \* the file system: path -> bytes on disk
    file,           \* App.file : Option<File>, the open handle (named by its path)
    args,           \* App.args : file, read_only, hard_seek, take
    dirty_region,   \* App.dirty_region : Option<Region>
    cursor,         \* the editing byte offset
    selection,      \* App.selection : Option<Region>
    select_begin,   \* App.select_begin : Option<usize>
    prefs,          \* preferences: auto_save, sticky_edit, quick_edit
    kind,           \* the focused view's ViewKind
    edit_buf,       \* the focused view's EditBuffer
    panicked,       \* TRUE once a panic!() / failed index / unwrap aborted the program
    modified,       \* history: offsets written since the last successful save / reload
    last,           \* history: what the last operation was and how its save() went
    \* ---- history of the widen calls (SpecWiden) ----
    w,              \* what the calls made so far were: see WInit
    \* ---- the source accessors (SpecAccess) ----
    access,         \* the bytes both accessors hold, the last read and its two results
    \* ---- SingleBufferAccessor::open_file_from_args (SpecOpen) ----
    open,           \* the accessor's buffer, args, cfg.recent, source; the last call
    \* ---- the mutating accessor operations (SpecMut) ----
    mutacc,         \* the source's variant, bytes and permission; the last write
    \* ---- the perspective: region, columns, offsets (SpecPersp) ----
    persp,          \* region, cols, cursor; the last operation and its result
    \* ---- scroll_impl (SpecScroll) ----
    scroll,         \* one axis: whole cells and pixels; the calls made so far
    \* ---- the scroll operations of a View (SpecView) ----
    view,           \* the view's cell size, rectangle and scroll offset
    \* ---- View::row_col_offset_of_pos (SpecHit) ----
    hit,            \* the view, the position asked about and the answer
    \* ---- the find dialog (SpecFind) ----
    find,           \* the bytes searched, result_offsets, result_cursor, scroll_to
    \* ---- history of the characters typed (SpecEdit) ----
    typed           \* the characters handed to the view and what the last one did

\* ------------------------------------------------------------------------
\* Option<T> as a sequence of at most one element
\* ------------------------------------------------------------------------
None == <<>>
Some(x) == <<x>>
IsSome(o) == o # <<>>
Unwrap(o) == o[1]

SetMin(S) == CHOOSE x \in S : \A y \in S : x <= y
SetMax(S) == CHOOSE x \in S : \A y \in S : x >= y

\* struct Region { begin, end }
Region(b, e) == [begin |-> b, end |-> e]

\* ------------------------------------------------------------------------
\* Faulty variants of widen_dirty_region, each differing from it in one place
\* ------------------------------------------------------------------------
\* a begin past the tracked end does not raise the end
WidenNoRaise(dr, begin, end) ==
    IF IsSome(dr)
    THEN LET d0 == Unwrap(dr)
             d1 == IF begin < d0.begin THEN [d0 EXCEPT !.begin = begin] ELSE d0
         IN  IF IsSome(end)
             THEN IF Unwrap(end) < d1.begin
                  THEN [dirty |-> Some(d1), panic |-> TRUE]
                  ELSE IF Unwrap(end) > d1.end
                       THEN [dirty |-> Some([d1 EXCEPT !.end = Unwrap(end)]), panic |-> FALSE]
                       ELSE [dirty |-> Some(d1), panic |-> FALSE]
             ELSE [dirty |-> Some(d1), panic |-> FALSE]
    ELSE [dirty |-> Some(Region(begin, IF IsSome(end) THEN Unwrap(end) ELSE begin)),
          panic |-> FALSE]

\* an untracked tracker starts at [begin, begin] whatever end is
WidenIgnoresFirstEnd(dr, begin, end) ==
    IF IsSome(dr)
    THEN LET d0 == Unwrap(dr)
             d1 == IF begin < d0.begin THEN [d0 EXCEPT !.begin = begin] ELSE d0
             d2 == IF begin > d1.end THEN [d1 EXCEPT !.end = begin] ELSE d1
         IN  IF IsSome(end)
             THEN IF Unwrap(end) < d2.begin
                  THEN [dirty |-> Some(d2), panic |-> TRUE]
                  ELSE IF Unwrap(end) > d2.end
                       THEN [dirty |-> Some([d2 EXCEPT !.end = Unwrap(end)]), panic |-> FALSE]
                       ELSE [dirty |-> Some(d2), panic |-> FALSE]
             ELSE [dirty |-> Some(d2), panic |-> FALSE]
    ELSE [dirty |-> Some(Region(begin, begin)), panic |-> FALSE]

\* the tracked begin is set to begin even when begin is greater
WidenMovesBegin(dr, begin, end) ==
    IF IsSome(dr)
    THEN LET d0 == Unwrap(dr)
             d1 == [d0 EXCEPT !.begin = begin]
             d2 == IF begin > d1.end THEN [d1 EXCEPT !.end = begin] ELSE d1
         IN  IF IsSome(end)
             THEN IF Unwrap(end) < d2.begin
                  THEN [dirty |-> Some(d2), panic |-> TRUE]
                  ELSE IF Unwrap(end) > d2.end
                       THEN [dirty |-> Some([d2 EXCEPT !.end = Unwrap(end)]), panic |-> FALSE]
                       ELSE [dirty |-> Some(d2), panic |-> FALSE]
             ELSE [dirty |-> Some(d2), panic |-> FALSE]
    ELSE [dirty |-> Some(Region(begin, IF IsSome(end) THEN Unwrap(end) ELSE begin)),
          panic |-> FALSE]

\* the supplied end is compared with the begin tracked before the call
WidenChecksOldBegin(dr, begin, end) ==
    IF IsSome(dr)
    THEN LET d0 == Unwrap(dr)
             d1 == IF begin < d0.begin THEN [d0 EXCEPT !.begin = begin] ELSE d0
             d2 == IF begin > d1.end THEN [d1 EXCEPT !.end = begin] ELSE d1
         IN  IF IsSome(end)
             THEN IF Unwrap(end) < d0.begin
                  THEN [dirty |-> Some(d2), panic |-> TRUE]
                  ELSE IF Unwrap(end) > d2.end
                       THEN [dirty |-> Some([d2 EXCEPT !.end = Unwrap(end)]), panic |-> FALSE]
                       ELSE [dirty |-> Some(d2), panic |-> FALSE]
             ELSE [dirty |-> Some(d2), panic |-> FALSE]
    ELSE [dirty |-> Some(Region(begin, IF IsSome(end) THEN Unwrap(end) ELSE begin)),
          panic |-> FALSE]

\* ------------------------------------------------------------------------
\* App::widen_dirty_region(begin, end: Option<usize>)
\* Result: the tracker after the call (as far as it got) and whether the
\* call panicked.
\* ------------------------------------------------------------------------
WidenDirtyRegion(dr, begin, end) ==
    IF IsSome(dr)
    THEN LET d0 == Unwrap(dr)
             d1 == IF begin < d0.begin THEN [d0 EXCEPT !.begin = begin] ELSE d0
             d2 == IF begin > d1.end THEN [d1 EXCEPT !.end = begin] ELSE d1
         IN  IF IsSome(end)
             THEN IF Unwrap(end) < d2.begin
                  THEN [dirty |-> Some(d2), panic |-> TRUE]
                  ELSE IF Unwrap(end) > d2.end
                       THEN [dirty |-> Some([d2 EXCEPT !.end = Unwrap(end)]), panic |-> FALSE]
                       ELSE [dirty |-> Some(d2), panic |-> FALSE]
             ELSE [dirty |-> Some(d2), panic |-> FALSE]
    ELSE [dirty |-> Some(Region(begin, IF IsSome(end) THEN Unwrap(end) ELSE begin)),
          panic |-> FALSE]

\* ------------------------------------------------------------------------
\* Files and I/O
\* ------------------------------------------------------------------------
Min2(a, b) == IF a <= b THEN a ELSE b

\* v[a..b] for a <= b <= len (0-based, half-open), as a sequence
Slice(v, a, b) == SubSeq(v, a + 1, b)

\* args.hard_seek.unwrap_or(0)
HardSeek(a) == IF IsSome(a.hard_seek) THEN Unwrap(a.hard_seek) ELSE 0

\* read_contents(args, file): seek to hard_seek, then read to the end, or at
\* most args.take bytes. Seeking past the end of a file reads nothing.
ReadContents(a, disk) ==
    LET seek == HardSeek(a)
        rest == IF seek >= Len(disk) THEN <<>> ELSE Slice(disk, seek, Len(disk))
    IN  IF IsSome(a.take)
        THEN Slice(rest, 0, Min2(Unwrap(a.take), Len(rest)))
        ELSE rest

\* The file after `bytes` were written at position pos (a write past the end
\* extends the file, the gap reading as zeros).
DiskWrite(disk, pos, bytes) ==
    LET n == IF pos + Len(bytes) > Len(disk) THEN pos + Len(bytes) ELSE Len(disk)
    IN  [i \in 1..n |->
            IF i > pos /\ i <= pos + Len(bytes) THEN bytes[i - pos]
            ELSE IF i <= Len(disk) THEN disk[i] ELSE 0]

\* What the operating system and the build answer during one save():
\*   fail  "none" | "seek_start" | "seek_cur" | "write": the call that fails
\*   wrote  how many bytes write_all had written when it failed
\*   overflow_checks  whether the build panics on integer overflow (debug)
IoOutcomes(maxWrote) ==
    [fail : {"none", "seek_start", "seek_cur"}, wrote : {0}, overflow_checks : BOOLEAN]
    \cup [fail : {"write"}, wrote : 0..maxWrote, overflow_checks : BOOLEAN]

\* Faulty variants of save(), each differing from it in one place:
\* the seek to the region's begin is left out
SaveSkipsRegionSeek(f, fs, a, d, dr, io) ==
    LET same == [files |-> fs, dirty |-> dr, res |-> "err", wrote |-> None]
        offset == HardSeek(a)
        WriteAll(pos, bytes) ==
            IF io.fail = "write"
            THEN LET part == Slice(bytes, 0, Min2(io.wrote, Len(bytes)))
                 IN  [files |-> [fs EXCEPT ![Unwrap(f)] = DiskWrite(@, pos, part)],
                      dirty |-> dr, res |-> "err",
                      wrote |-> Some([pos |-> pos, bytes |-> part])]
            ELSE [files |-> [fs EXCEPT ![Unwrap(f)] = DiskWrite(@, pos, bytes)],
                  dirty |-> None, res |-> "ok",
                  wrote |-> Some([pos |-> pos, bytes |-> bytes])]
    IN  IF ~IsSome(f) THEN same
        ELSE IF io.fail = "seek_start" THEN same
        ELSE IF IsSome(dr)
             THEN LET region == Unwrap(dr)
                  IN  IF region.end < region.begin /\ io.overflow_checks
                      THEN [same EXCEPT !.res = "panic"]
                      ELSE IF io.fail = "seek_cur" THEN same
                      ELSE IF region.begin > region.end + 1 \/ region.end + 1 > Len(d)
                           THEN [same EXCEPT !.res = "panic"]
                           ELSE WriteAll(offset,
                                         Slice(d, region.begin, region.end + 1))
             ELSE WriteAll(offset, d)

\* a failed write clears the tracker
SaveClearsOnWriteError(f, fs, a, d, dr, io) ==
    LET same == [files |-> fs, dirty |-> dr, res |-> "err", wrote |-> None]
        offset == HardSeek(a)
        WriteAll(pos, bytes) ==
            IF io.fail = "write"
            THEN LET part == Slice(bytes, 0, Min2(io.wrote, Len(bytes)))
                 IN  [files |-> [fs EXCEPT ![Unwrap(f)] = DiskWrite(@, pos, part)],
                      dirty |-> None, res |-> "err",
                      wrote |-> Some([pos |-> pos, bytes |-> part])]
            ELSE [files |-> [fs EXCEPT ![Unwrap(f)] = DiskWrite(@, pos, bytes)],
                  dirty |-> None, res |-> "ok",
                  wrote |-> Some([pos |-> pos, bytes |-> bytes])]
    IN  IF ~IsSome(f) THEN same
        ELSE IF io.fail = "seek_start" THEN same
        ELSE IF IsSome(dr)
             THEN LET region == Unwrap(dr)
                  IN  IF region.end < region.begin /\ io.overflow_checks
                      THEN [same EXCEPT !.res = "panic"]
                      ELSE IF io.fail = "seek_cur" THEN same
                      ELSE IF region.begin > region.end + 1 \/ region.end + 1 > Len(d)
                           THEN [same EXCEPT !.res = "panic"]
                           ELSE WriteAll(offset + region.begin,
                                         Slice(d, region.begin, region.end + 1))
             ELSE WriteAll(offset, d)

\* App::save(). Result: the file system and the tracker after the call,
\* res: "ok" (Ok(())), "err" (an Err was returned) or "panic", and wrote:
\* the bytes that reached the file and the position they were written at.
Save(f, fs, a, d, dr, io) ==
    LET same == [files |-> fs, dirty |-> dr, res |-> "err", wrote |-> None]
        offset == HardSeek(a)
        WriteAll(pos, bytes) ==
            IF io.fail = "write"
            THEN LET part == Slice(bytes, 0, Min2(io.wrote, Len(bytes)))
                 IN  [files |-> [fs EXCEPT ![Unwrap(f)] = DiskWrite(@, pos, part)],
                      dirty |-> dr, res |-> "err",
                      wrote |-> Some([pos |-> pos, bytes |-> part])]
            ELSE [files |-> [fs EXCEPT ![Unwrap(f)] = DiskWrite(@, pos, bytes)],
                  dirty |-> None, res |-> "ok",
                  wrote |-> Some([pos |-> pos, bytes |-> bytes])]
    IN  IF ~IsSome(f) THEN same
        ELSE IF io.fail = "seek_start" THEN same
        ELSE IF IsSome(dr)
             THEN LET region == Unwrap(dr)
                  IN  IF region.end < region.begin /\ io.overflow_checks
                      THEN [same EXCEPT !.res = "panic"]
                      ELSE IF io.fail = "seek_cur" THEN same
                      ELSE IF region.begin > region.end + 1 \/ region.end + 1 > Len(d)
                           THEN [same EXCEPT !.res = "panic"]
                           ELSE WriteAll(offset + region.begin,
                                         Slice(d, region.begin, region.end + 1))
             ELSE WriteAll(offset, d)

\* ------------------------------------------------------------------------
\* Edit buffer and the text of a byte
\* ------------------------------------------------------------------------
\* characters are their ASCII codes
Chr0 == 48
ChrUpperA == 65
ChrLowerA == 97

IsDigit(c) == c >= Chr0 /\ c <= Chr0 + 9
IsLowerHex(c) == c >= ChrLowerA /\ c <= ChrLowerA + 5
IsUpperHex(c) == c >= ChrUpperA /\ c <= ChrUpperA + 5

\* char::to_ascii_uppercase
ToAsciiUppercase(c) == IF c >= ChrLowerA /\ c <= ChrLowerA + 25 THEN c - 32 ELSE c

HexDigitChar(n) == IF n < 10 THEN Chr0 + n ELSE ChrUpperA + (n - 10)

\* format!("{:02X}", byte)
FormatHex02(b) == <<HexDigitChar(b \div 16), HexDigitChar(b % 16)>>

\* format!("{:03}", byte)
FormatDec03(b) == <<Chr0 + (b \div 100), Chr0 + ((b \div 10) % 10), Chr0 + (b % 10)>>

HexVal(c) ==
    IF IsDigit(c) THEN c - Chr0
    ELSE IF IsUpperHex(c) THEN c - ChrUpperA + 10
    ELSE IF IsLowerHex(c) THEN c - ChrLowerA + 10
    ELSE 0

\* hex_conv::merge_hex_halves
MergeHexHalves(first, second) == HexVal(first) * 16 + HexVal(second)

\* a parse into a wider integer cut to a byte: 999 becomes 231
ParseU8Truncating(buf) ==
    IF \A i \in 1..Len(buf) : IsDigit(buf[i])
    THEN Some(((buf[1] - Chr0) * 100 + (buf[2] - Chr0) * 10 + (buf[3] - Chr0)) % 256)
    ELSE None

\* str::parse::<u8>() of the Dec edit buffer: Some(n), or None for an Err
ParseU8(buf) ==
    IF \A i \in 1..Len(buf) : IsDigit(buf[i])
    THEN LET n == (buf[1] - Chr0) * 100 + (buf[2] - Chr0) * 10 + (buf[3] - Chr0)
         IN  IF n <= 255 THEN Some(n) ELSE None
    ELSE None

\* View::glyph_count
GlyphCount(k) == IF k = "Hex" THEN 2 ELSE IF k = "Dec" THEN 3 ELSE 1

\* EditBuffer::default() resized to the view's glyph count
NewEditBuffer(k) == [buf |-> [i \in 1..GlyphCount(k) |-> 0], cursor |-> 0, dirty |-> FALSE]

\* EditBuffer::reset
EditBufReset(eb) == [eb EXCEPT !.cursor = 0, !.dirty = FALSE]

\* EditBuffer::update_from_string
EditBufUpdateFromString(eb, s) ==
    [eb EXCEPT !.buf = [i \in 1..Len(eb.buf) |-> IF i <= Len(s) THEN s[i] ELSE eb.buf[i]]]

\* EditBuffer::enter_byte: the buffer afterwards and whether the cell is full
EditBufEnterByte(eb, byte) ==
    LET e1 == [eb EXCEPT !.dirty = TRUE, !.buf[eb.cursor + 1] = byte,
                         !.cursor = eb.cursor + 1]
    IN  IF e1.cursor >= Len(e1.buf)
        THEN [eb |-> EditBufReset(e1), finished |-> TRUE]
        ELSE [eb |-> e1, finished |-> FALSE]

\* a char_valid that takes the letters a-f for invalid
CharValidDigitsOnly(k, unicode) ==
    CASE k = "Hex"  -> IsDigit(unicode)
      [] k = "Dec"  -> IsDigit(unicode)
      [] k = "Text" -> unicode < 128
      [] OTHER      -> FALSE

\* View::char_valid
CharValid(k, unicode) ==
    CASE k = "Hex"  -> IsDigit(unicode) \/ IsLowerHex(unicode)
      [] k = "Dec"  -> IsDigit(unicode)
      [] k = "Text" -> unicode < 128
      [] OTHER      -> FALSE

\* SliceExt::pattern_fill: the pattern repeated over n bytes
PatternFill(n, pattern) == [i \in 1..n |-> pattern[((i - 1) % Len(pattern)) + 1]]

\* v with v[a ..= a + Len(bytes) - 1] replaced by bytes (0-based a)
Overwrite(v, a, bytes) ==
    [i \in 1..Len(v) |-> IF i > a /\ i <= a + Len(bytes) THEN bytes[i - a] ELSE v[i]]

\* ------------------------------------------------------------------------
\* The application's operations
\* ------------------------------------------------------------------------
extVars == <<mutacc, persp, scroll, view, hit, find>>

appVars == <<data, files, file, args, dirty_region, cursor, selection, select_begin,
             prefs, kind, edit_buf, panicked, modified, last>>

\* `last` when the operation called neither save() nor reload()
NoCall == [op |-> "none", res |-> "none", warn |-> FALSE, pre |-> None, wrote |-> None,
           commit |-> FALSE]

\* `last` after an operation called save(): how it ended, what it wrote, and
\* the file system, the tracker and the buffer it was called with
SaveCall(sv, dr, d) ==
    [op |-> "save", res |-> sv.res, warn |-> FALSE,
     pre |-> Some([files |-> files, dirty |-> dr, data |-> d]), wrote |-> sv.wrote,
     commit |-> FALSE]

\* The program aborts: nothing of its state is used any more.
Panic ==
    /\ panicked' = TRUE
    /\ last' = [NoCall EXCEPT !.res = "panic"]
    /\ UNCHANGED <<data, files, file, args, dirty_region, cursor, selection,
                   select_begin, prefs, kind, edit_buf, modified, w, access, open, extVars, typed>>

\* a commit that steps over the last byte of the source
StepAfterCommitUnguarded(c, len, sticky_edit) == IF ~sticky_edit THEN c + 1 ELSE c

\* the cursor after a commit at c: step_cursor_forward unless it is the last
\* byte or sticky_edit is set
StepAfterCommit(c, len, sticky_edit) == IF c + 1 < len /\ ~sticky_edit THEN c + 1 ELSE c

\* View::finish_editing with the edit buffer eb
FinishEditing(eb, io) ==
    LET commit == CASE kind = "Hex"  -> Some(MergeHexHalves(eb.buf[1], eb.buf[2]))
                    [] kind = "Dec"  -> ParseU8(eb.buf)
                    [] kind = "Text" -> Some(eb.buf[1])
                    [] OTHER         -> None
        writes == IsSome(commit)
        data1  == IF writes THEN [data EXCEPT ![cursor + 1] = Unwrap(commit)] ELSE data
        wd     == IF writes THEN WidenDirtyRegion(dirty_region, cursor, None)
                            ELSE [dirty |-> dirty_region, panic |-> FALSE]
        cursor1 == StepAfterCommit(cursor, Len(data), prefs.sticky_edit)
        sv     == IF prefs.auto_save
                  THEN Save(file, files, args, data1, wd.dirty, io)
                  ELSE [files |-> files, dirty |-> wd.dirty, res |-> "none", wrote |-> None]
        mod1   == IF writes THEN modified \cup {cursor} ELSE modified
        warn   == kind = "Dec" /\ ~writes
    IN  IF (writes /\ cursor >= Len(data)) \/ wd.panic \/ sv.res = "panic"
        THEN Panic
        ELSE /\ data' = data1
             /\ dirty_region' = sv.dirty
             /\ cursor' = cursor1
             /\ edit_buf' = EditBufReset(eb)
             /\ files' = sv.files
             /\ modified' = IF sv.res = "ok" THEN {} ELSE mod1
             /\ last' = IF prefs.auto_save
                        THEN [SaveCall(sv, wd.dirty, data1) EXCEPT !.warn = warn,
                                                                   !.commit = TRUE]
                        ELSE [NoCall EXCEPT !.warn = warn, !.commit = TRUE]
             /\ UNCHANGED <<file, args, selection, select_begin, prefs, kind, panicked, w, access, open, extVars>>

\* View::handle_text_entered
HandleTextEntered(unicode, io) ==
    /\ ~panicked
    /\ CharValid(kind, unicode)
    /\ kind # "Block"
    /\ LET seeds == kind \in {"Hex", "Dec"} /\ ~edit_buf.dirty
           text  == IF kind = "Hex" THEN FormatHex02(data[cursor + 1])
                                    ELSE FormatDec03(data[cursor + 1])
           eb1   == IF seeds THEN EditBufUpdateFromString(edit_buf, text) ELSE edit_buf
           en    == EditBufEnterByte(eb1, ToAsciiUppercase(unicode))
       IN  IF seeds /\ cursor >= Len(data)
           THEN Panic
           ELSE IF en.finished \/ prefs.quick_edit
                THEN FinishEditing(en.eb, io)
                ELSE /\ edit_buf' = en.eb
                     /\ last' = NoCall
                     /\ UNCHANGED <<data, files, file, args, dirty_region, cursor,
                                    selection, select_begin, prefs, kind, panicked,
                                    modified, w, access, open, extVars>>

\* bottom panel, Edit mode: the "u8" text field (Some(v): it parses to v)
U8Entry(u8_buf) ==
    /\ ~panicked
    /\ Len(data) # 0
    /\ IF ~IsSome(u8_buf) \/ cursor >= Len(data)
       THEN Panic
       ELSE LET wd == WidenDirtyRegion(dirty_region, cursor, None)
            IN  /\ data' = [data EXCEPT ![cursor + 1] = Unwrap(u8_buf)]
                /\ dirty_region' = wd.dirty
                /\ modified' = modified \cup {cursor}
                /\ last' = NoCall
                /\ UNCHANGED <<files, file, args, cursor, selection, select_begin,
                               prefs, kind, edit_buf, panicked, w, access, open, extVars, typed>>

\* the bytes fill[n] written over the n bytes of the selection, then the
\* tracker widened by the selection: "fill" and "Fill selection with random"
FillSelection(fill) ==
    /\ ~panicked
    /\ IsSome(selection)
    /\ LET sel == Unwrap(selection)
           n   == (sel.end + 1) - sel.begin
           wd  == WidenDirtyRegion(dirty_region, sel.begin, Some(sel.end))
       IN  IF sel.begin > sel.end + 1 \/ sel.end + 1 > Len(data) \/ wd.panic
           THEN Panic
           ELSE /\ data' = Overwrite(data, sel.begin, fill[n])
                /\ dirty_region' = wd.dirty
                /\ modified' = modified \cup (sel.begin..sel.end)
                /\ last' = NoCall
                /\ UNCHANGED <<files, file, args, cursor, selection, select_begin,
                               prefs, kind, edit_buf, panicked, w, access, open, extVars, typed>>

FillPattern(pattern) ==
    FillSelection([n \in 0..Len(data) |-> PatternFill(n, pattern)])

FillRandom(rnd) ==
    /\ Len(rnd) >= Len(data)
    /\ FillSelection([n \in 0..Len(data) |-> Slice(rnd, 0, n)])

\* "Set select begin to cursor"
SetSelectBegin ==
    /\ ~panicked
    /\ IF IsSome(selection)
       THEN /\ selection' = Some([Unwrap(selection) EXCEPT !.begin = cursor])
            /\ UNCHANGED select_begin
       ELSE /\ select_begin' = Some(cursor)
            /\ UNCHANGED selection
    /\ last' = NoCall
    /\ UNCHANGED <<data, files, file, args, dirty_region, cursor, prefs, kind,
                   edit_buf, panicked, modified, w, access, open, extVars, typed>>

\* "Set select end to cursor"
SetSelectEnd ==
    /\ ~panicked
    /\ IsSome(select_begin)
    /\ selection' = IF IsSome(selection)
                    THEN Some([Unwrap(selection) EXCEPT !.end = cursor])
                    ELSE Some(Region(Unwrap(select_begin), cursor))
    /\ last' = NoCall
    /\ UNCHANGED <<data, files, file, args, dirty_region, cursor, select_begin, prefs,
                   kind, edit_buf, panicked, modified, w, access, open, extVars, typed>>

\* "Unselect all"
Unselect ==
    /\ ~panicked
    /\ selection' = None
    /\ last' = NoCall
    /\ UNCHANGED <<data, files, file, args, dirty_region, cursor, select_begin, prefs,
                   kind, edit_buf, panicked, modified, w, access, open, extVars, typed>>

\* "Set cursor position" dialog
SetCursor(offset) ==
    /\ ~panicked
    /\ cursor' = offset
    /\ last' = NoCall
    /\ UNCHANGED <<data, files, file, args, dirty_region, selection, select_begin,
                   prefs, kind, edit_buf, panicked, modified, w, access, open, extVars, typed>>

\* The "Save (ctrl+S)" button: enabled only when not read-only and dirty
SaveButton(io) ==
    /\ ~panicked
    /\ ~args.read_only /\ IsSome(dirty_region)
    /\ LET sv == Save(file, files, args, data, dirty_region, io)
       IN  IF sv.res = "panic"
           THEN Panic
           ELSE /\ files' = sv.files
                /\ dirty_region' = sv.dirty
                /\ modified' = IF sv.res = "ok" THEN {} ELSE modified
                /\ last' = SaveCall(sv, dirty_region, data)
                /\ UNCHANGED <<data, file, args, cursor, selection, select_begin,
                               prefs, kind, edit_buf, panicked, w, access, open, extVars, typed>>

\* App::reload (read_ok: whether read_contents succeeds)
Reload(read_ok) ==
    /\ ~panicked
    /\ IF IsSome(file) /\ read_ok
       THEN /\ data' = ReadContents(args, files[Unwrap(file)])
            /\ dirty_region' = None
            /\ modified' = {}
            /\ last' = [NoCall EXCEPT !.op = "reload", !.res = "ok"]
       ELSE /\ last' = [NoCall EXCEPT !.op = "reload",
                                      !.res = IF IsSome(file) THEN "err" ELSE "ok",
                                      !.warn = ~IsSome(file)]
            /\ UNCHANGED <<data, dirty_region, modified>>
    /\ UNCHANGED <<files, file, args, cursor, selection, select_begin, prefs, kind,
                   edit_buf, panicked, w, access, open, extVars, typed>>

\* App::load_file (open_ok, read_ok: whether open_file / read_contents succeed)
LoadFile(path, open_ok, read_ok) ==
    /\ ~panicked
    /\ IF open_ok /\ read_ok
       THEN /\ data' = ReadContents(args, files[path])
            /\ file' = Some(path)
            /\ args' = [args EXCEPT !.file = Some(path)]
       ELSE UNCHANGED <<data, file, args>>
    /\ last' = NoCall
    /\ UNCHANGED <<files, dirty_region, modified, cursor, selection, select_begin, prefs, kind,
                   edit_buf, panicked, w, access, open, extVars, typed>>

\* App::close_file
CloseFile ==
    /\ ~panicked
    /\ data' = <<>>
    /\ args' = [args EXCEPT !.file = None]
    /\ file' = None
    /\ last' = NoCall
    /\ UNCHANGED <<files, dirty_region, modified, cursor, selection, select_begin, prefs, kind,
                   edit_buf, panicked, w, access, open, extVars, typed>>

\* ------------------------------------------------------------------------
\* SpecWiden: widen_dirty_region called with arbitrary arguments, starting
\* from an untracked tracker.
\* ------------------------------------------------------------------------
MaxOff == 10
Offsets == 0..MaxOff
OptOffsets == {None} \cup {Some(e) : e \in Offsets}

WInit ==
    w = [called |-> FALSE,      \* at least one call was made
         wf     |-> TRUE,       \* every call so far had end absent or end >= begin
         min    |-> 0,          \* least begin passed so far
         max    |-> 0,          \* greatest begin / supplied end passed so far
         begin  |-> 0,          \* the last call's arguments
         end    |-> None,
         pre    |-> None]       \* the tracker before the last call

WidenCall(b, e) ==
    /\ ~panicked
    /\ LET r  == WidenDirtyRegion(dirty_region, b, e)
           es == IF IsSome(e) THEN {Unwrap(e)} ELSE {}
       IN  /\ dirty_region' = r.dirty
           /\ panicked' = r.panic
           /\ w' = [called |-> TRUE,
                    wf     |-> w.wf /\ (IsSome(e) => Unwrap(e) >= b),
                    min    |-> IF w.called THEN SetMin({w.min, b}) ELSE b,
                    max    |-> IF w.called THEN SetMax({w.max, b} \cup es)
                                           ELSE SetMax({b} \cup es),
                    begin  |-> b,
                    end    |-> e,
                    pre    |-> dirty_region]
    /\ UNCHANGED <<data, files, file, args, cursor, selection, select_begin, prefs,
                   kind, edit_buf, modified, last, access, open, extVars, typed>>

\* ------------------------------------------------------------------------
\* The source accessors: SingleBufferAccessor (a Vec<u8>) and MemmapAccessor
\* (a mapping), read through SourceAccessEnum. A read ends in one of three
\* ways: it returns bytes (or a number, as a one-element sequence), it
\* returns None, or it panics.
\* ------------------------------------------------------------------------
OkRes(v) == [tag |-> "ok", val |-> v]
NoneRes == [tag |-> "none", val |-> <<>>]
PanicRes == [tag |-> "panic", val |-> <<>>]

\* <[u8]>::get(a..b), &v[a..b]
SliceGet(v, a, b) == IF a > b \/ b > Len(v) THEN NoneRes ELSE OkRes(Slice(v, a, b))
SliceIndex(v, a, b) == IF a > b \/ b > Len(v) THEN PanicRes ELSE OkRes(Slice(v, a, b))

\* &v[a..=b]
SliceIndexInclusive(v, a, b) ==
    IF a > b + 1 \/ b + 1 > Len(v) THEN PanicRes ELSE OkRes(Slice(v, a, b + 1))

\* <[u8]>::get(a..), &v[a..]
SliceGetFrom(v, a) == IF a > Len(v) THEN NoneRes ELSE OkRes(Slice(v, a, Len(v)))
SliceIndexFrom(v, a) == IF a > Len(v) THEN PanicRes ELSE OkRes(Slice(v, a, Len(v)))

\* <[u8]>::get(..bound), &v[..bound]
SliceGetTo(v, bound) == IF bound > Len(v) THEN NoneRes ELSE OkRes(Slice(v, 0, bound))
SliceIndexTo(v, bound) == IF bound > Len(v) THEN PanicRes ELSE OkRes(Slice(v, 0, bound))

\* v[idx]
IndexByte(v, idx) == IF idx >= Len(v) THEN PanicRes ELSE OkRes(<<v[idx + 1]>>)

\* memchr::memmem::find_iter: the matches from left to right, the search
\* resuming after the end of each match (one past its start for an empty
\* needle)
RECURSIVE MemmemFindIter(_, _, _)
MemmemFindIter(haystack, needle, pos) ==
    LET n    == Len(needle)
        hits == {i \in pos..(Len(haystack) - n) : Slice(haystack, i, i + n) = needle}
    IN  IF hits = {} THEN <<>>
        ELSE LET i == SetMin(hits)
             IN  <<i>> \o MemmemFindIter(haystack, needle, i + (IF n = 0 THEN 1 ELSE n))

\* impl SourceAccess for SingleBufferAccessor
SingleBuffer_get_range(v, a, b) == SliceGet(v, a, b)
SingleBuffer_slice_range(v, a, b) == SliceIndex(v, a, b)
SingleBuffer_slice_range_inclusive(v, a, b) == SliceIndexInclusive(v, a, b)
SingleBuffer_slice_range_from_upper_bound(v, start, bound) ==
    LET r == SliceIndexFrom(v, start)
    IN  IF r.tag = "ok" THEN SliceIndexTo(r.val, bound) ELSE r
SingleBuffer_get_range_from_upper_bound(v, start, bound) ==
    LET r == SliceGetFrom(v, start)
    IN  IF r.tag = "ok" THEN SliceGetTo(r.val, bound) ELSE r
SingleBuffer_index_byte(v, idx) == IndexByte(v, idx)
SingleBuffer_source_len(v) == OkRes(<<Len(v)>>)
SingleBuffer_iter(v) == OkRes(v)
SingleBuffer_find_iter(v, needle) == OkRes(MemmemFindIter(v, needle, 0))

\* impl SourceAccess for MemmapAccessor
Memmap_get_range(mmap, a, b) == SliceGet(mmap, a, b)
Memmap_slice_range(mmap, a, b) == SliceIndex(mmap, a, b)
Memmap_slice_range_inclusive(mmap, a, b) == SliceIndexInclusive(mmap, a, b)
Memmap_slice_range_from_upper_bound(mmap, start, bound) == SliceIndexFrom(mmap, start)
Memmap_get_range_from_upper_bound(mmap, start, bound) == SliceGetFrom(mmap, start)
Memmap_index_byte(mmap, idx) == IndexByte(mmap, idx)
Memmap_source_len(mmap) == OkRes(<<Len(mmap)>>)
Memmap_iter(mmap) == OkRes(mmap)
Memmap_find_iter(mmap, needle) == OkRes(MemmemFindIter(mmap, needle, 0))

\* impl SourceAccess for SourceAccessEnum: each method hands the call to the
\* variant's method of the same name
SourceAccessEnum(variant, op, v, a, b, needle) ==
    IF variant = "SingleBuffer"
    THEN CASE op = "get_range"                    -> SingleBuffer_get_range(v, a, b)
           [] op = "slice_range"                  -> SingleBuffer_slice_range(v, a, b)
           [] op = "slice_range_inclusive"        -> SingleBuffer_slice_range_inclusive(v, a, b)
           [] op = "slice_range_from_upper_bound" ->
                  SingleBuffer_slice_range_from_upper_bound(v, a, b)
           [] op = "get_range_from_upper_bound"   ->
                  SingleBuffer_get_range_from_upper_bound(v, a, b)
           [] op = "index_byte"                   -> SingleBuffer_index_byte(v, a)
           [] op = "source_len"                   -> SingleBuffer_source_len(v)
           [] op = "iter"                         -> SingleBuffer_iter(v)
           [] op = "find_iter"                    -> SingleBuffer_find_iter(v, needle)
    ELSE CASE op = "get_range"                    -> Memmap_get_range(v, a, b)
           [] op = "slice_range"                  -> Memmap_slice_range(v, a, b)
           [] op = "slice_range_inclusive"        -> Memmap_slice_range_inclusive(v, a, b)
           [] op = "slice_range_from_upper_bound" ->
                  Memmap_slice_range_from_upper_bound(v, a, b)
           [] op = "get_range_from_upper_bound"   ->
                  Memmap_get_range_from_upper_bound(v, a, b)
           [] op = "index_byte"                   -> Memmap_index_byte(v, a)
           [] op = "source_len"                   -> Memmap_source_len(v)
           [] op = "iter"                         -> Memmap_iter(v)
           [] op = "find_iter"                    -> Memmap_find_iter(v, needle)

\* ------------------------------------------------------------------------
\* SpecAccess: one accessor of each variant holding the same bytes; every
\* read is made on both with the same arguments.
\* ------------------------------------------------------------------------
MaxLen == 3
ByteVals == {0, 1}
Contents == UNION {[1..n -> ByteVals] : n \in 0..MaxLen}
Needles == UNION {[1..n -> ByteVals] : n \in 0..(MaxLen - 1)}
Positions == 0..(MaxLen + 1)

\* no read was made yet on the bytes
NoRead(bytes) ==
    [bytes |-> bytes, op |-> "none", a |-> 0, b |-> 0, needle |-> <<>>,
     single |-> NoneRes, memmap |-> NoneRes]

AccessIdle == access = NoRead(<<>>)

AccessInit == \E bytes \in Contents : access = NoRead(bytes)

\* `access` after the read `op` with arguments a, b (offsets, a bound or an
\* index) and needle was made on both accessors
AfterRead(op, a, b, needle) ==
    [bytes  |-> access.bytes, op |-> op, a |-> a, b |-> b, needle |-> needle,
     single |-> SourceAccessEnum("SingleBuffer", op, access.bytes, a, b, needle),
     memmap |-> SourceAccessEnum("Memmap", op, access.bytes, a, b, needle)]

get_range(a, b) ==
    /\ access' = AfterRead("get_range", a, b, <<>>)
    /\ UNCHANGED <<appVars, w, open, extVars, typed>>

slice_range(a, b) ==
    /\ access' = AfterRead("slice_range", a, b, <<>>)
    /\ UNCHANGED <<appVars, w, open, extVars, typed>>

slice_range_inclusive(a, b) ==
    /\ access' = AfterRead("slice_range_inclusive", a, b, <<>>)
    /\ UNCHANGED <<appVars, w, open, extVars, typed>>

slice_range_from_upper_bound(start, bound) ==
    /\ access' = AfterRead("slice_range_from_upper_bound", start, bound, <<>>)
    /\ UNCHANGED <<appVars, w, open, extVars, typed>>

get_range_from_upper_bound(start, bound) ==
    /\ access' = AfterRead("get_range_from_upper_bound", start, bound, <<>>)
    /\ UNCHANGED <<appVars, w, open, extVars, typed>>

index_byte(idx) ==
    /\ access' = AfterRead("index_byte", idx, 0, <<>>)
    /\ UNCHANGED <<appVars, w, open, extVars, typed>>

source_len ==
    /\ access' = AfterRead("source_len", 0, 0, <<>>)
    /\ UNCHANGED <<appVars, w, open, extVars, typed>>

iter ==
    /\ access' = AfterRead("iter", 0, 0, <<>>)
    /\ UNCHANGED <<appVars, w, open, extVars, typed>>

find_iter(needle) ==
    /\ access' = AfterRead("find_iter", 0, 0, needle)
    /\ UNCHANGED <<appVars, w, open, extVars, typed>>

NextAccess ==
    \/ \E a \in Positions, b \in Positions : get_range(a, b)
    \/ \E a \in Positions, b \in Positions : slice_range(a, b)
    \/ \E a \in Positions, b \in Positions : slice_range_inclusive(a, b)
    \/ \E a \in Positions, b \in Positions : slice_range_from_upper_bound(a, b)
    \/ \E a \in Positions, b \in Positions : get_range_from_upper_bound(a, b)
    \/ \E idx \in Positions : index_byte(idx)
    \/ source_len
    \/ iter
    \/ \E needle \in Needles : find_iter(needle)

\* ------------------------------------------------------------------------
\* SpecOpen: SingleBufferAccessor::open_file_from_args, called again and
\* again with the arguments and the answers of the file system chosen freely
\* ------------------------------------------------------------------------
RecentCap == 2
OpenPaths == {"a", "./a", "missing", "-"}

\* Path::canonicalize: "./a" names the file "a"
Canonicalize(path) == IF path = "./a" THEN "a" ELSE path

\* cfg.recent.use_(item): item becomes the most recent entry, once, and the
\* list keeps its newest RecentCap entries
RecentUse(recent, item) ==
    LET rest == SelectSeq(recent, LAMBDA x : x # item)
        all  == <<item>> \o rest
    IN  SubSeq(all, 1, Min2(Len(all), RecentCap))

OpenArgs == [file : {None} \cup {Some(p) : p \in OpenPaths}, read_only : BOOLEAN,
             hard_seek : {None}, take : {None}, stream : BOOLEAN]

OpenIdle ==
    open = [buf |-> <<>>, args |-> [file |-> None, read_only |-> FALSE, hard_seek |-> None,
                                    take |-> None, stream |-> FALSE],
            recent |-> <<>>, source |-> None, ret |-> None, pre |-> None]

\* open_file_from_args(args, cfg, source) on the accessor:
\*   open_ok   open_file succeeds (never for a path that names no file)
\*   canon_ok  path.canonicalize() succeeds
\*   read_ok   read_contents succeeds
open_file_from_args(a, open_ok, canon_ok, read_ok) ==
    LET pre == [buf |-> open.buf, args |-> a, recent |-> open.recent,
                source |-> open.source]
        start == [open EXCEPT !.args = a, !.pre = Some(pre)]
    IN  /\ open' =
            IF ~IsSome(a.file)
            THEN [start EXCEPT !.ret = Some(FALSE)]
            ELSE IF Unwrap(a.file) = "-"
            THEN [start EXCEPT !.source = Some([provider |-> "Stdin", stream |-> TRUE,
                                                write |-> FALSE]),
                               !.ret = Some(TRUE)]
            ELSE IF ~(open_ok /\ Canonicalize(Unwrap(a.file)) \in DOMAIN files)
            THEN [start EXCEPT !.ret = Some(FALSE)]
            ELSE LET a1 == IF canon_ok
                           THEN [a EXCEPT !.file = Some(Canonicalize(Unwrap(a.file)))]
                           ELSE a
                     s1 == [start EXCEPT !.buf = <<>>, !.args = a1,
                                         !.recent = RecentUse(open.recent, a1)]
                 IN  IF ~a.stream /\ ~read_ok
                     THEN [s1 EXCEPT !.ret = Some(FALSE)]
                     ELSE [s1 EXCEPT
                             !.buf = IF a.stream THEN <<>>
                                     ELSE ReadContents(a1, files[Canonicalize(Unwrap(a.file))]),
                             !.source = Some([provider |-> "File", stream |-> a.stream,
                                              write |-> ~a.read_only]),
                             !.ret = Some(TRUE)]
        /\ UNCHANGED <<appVars, w, access, extVars, typed>>

NextOpen ==
    \E a \in OpenArgs, open_ok \in BOOLEAN, canon_ok \in BOOLEAN, read_ok \in BOOLEAN :
        open_file_from_args(a, open_ok, canon_ok, read_ok)

\* ------------------------------------------------------------------------
\* The mutating operations of the two source accessors
\* (src/src/single_buffer_accessor.rs, src/src/memmap_accessor.rs,
\*  src/src/source_access.rs)
\* ------------------------------------------------------------------------
\* A mutating operation hands out a mutable slice (or byte) of the source.
\* The caller then stores through it: StoreAll is the source after the
\* caller stored `val` in every cell a .. b-1 it was handed.
StoreAll(v, a, b, val) ==
    [i \in 1..Len(v) |-> IF a < i /\ i <= b THEN val ELSE v[i]]

\* the outcome of a mutating operation: "ok" (a slice was handed out and
\* stored through), "none" (Option::None) or "panic"; data is the source
\* afterwards
MutRes(tag, v) == [tag |-> tag, data |-> v]

\* self.0.get_mut(a..b)
SingleBuffer_get_range_mut(v, a, b, val) ==
    IF a > b \/ b > Len(v) THEN MutRes("none", v)
    ELSE MutRes("ok", StoreAll(v, a, b, val))

\* &mut self.0[a..=b]
SingleBuffer_slice_range_inclusive_mut(v, a, b, val) ==
    IF a > b + 1 \/ b + 1 > Len(v) THEN MutRes("panic", v)
    ELSE MutRes("ok", StoreAll(v, a, b + 1, val))

\* &mut self.0[idx]
SingleBuffer_index_byte_mut(v, idx, val) ==
    IF idx >= Len(v) THEN MutRes("panic", v)
    ELSE MutRes("ok", StoreAll(v, idx, idx + 1, val))

\* a memory map that hands out its byte like the single buffer does
MemmapStoresByte(mmap, idx, val) == SingleBuffer_index_byte_mut(mmap, idx, val)

\* todo!() in all three
Memmap_get_range_mut(mmap, a, b, val) == MutRes("panic", mmap)
Memmap_slice_range_inclusive_mut(mmap, a, b, val) == MutRes("panic", mmap)
Memmap_index_byte_mut(mmap, idx, val) == MutRes("panic", mmap)

\* impl SourceAccess for SourceAccessEnum: each operation is forwarded to the
\* variant
SourceAccessEnumMut(variant, op, v, a, b, val) ==
    CASE op = "get_range_mut" ->
            IF variant = "SingleBuffer" THEN SingleBuffer_get_range_mut(v, a, b, val)
                                        ELSE Memmap_get_range_mut(v, a, b, val)
      [] op = "slice_range_inclusive_mut" ->
            IF variant = "SingleBuffer"
            THEN SingleBuffer_slice_range_inclusive_mut(v, a, b, val)
            ELSE Memmap_slice_range_inclusive_mut(v, a, b, val)
      [] op = "index_byte_mut" ->
            IF variant = "SingleBuffer" THEN SingleBuffer_index_byte_mut(v, a, val)
                                        ELSE Memmap_index_byte_mut(v, a, val)

MutLen == 2
MutContents == UNION {[1..n -> ByteVals] : n \in 0..MutLen}
MutPositions == 0..(MutLen + 1)

\* nothing was asked of the source yet
NoMut(variant, bytes, write) ==
    [variant |-> variant, bytes |-> bytes, write |-> write, op |-> "none",
     a |-> 0, b |-> 0, val |-> 0, tag |-> "none", pre |-> bytes, aborted |-> FALSE]

MutIdle == mutacc = NoMut("SingleBuffer", <<>>, TRUE)

\* a source of either variant; write is Source.attr.permissions.write, which
\* open_file_from_args sets to !args.read_only
MutInit ==
    \E variant \in {"SingleBuffer", "Memmap"}, bytes \in MutContents, write \in BOOLEAN :
        mutacc = NoMut(variant, bytes, write)

\* the operation is made on the source; a panic ends the program
AfterMut(op, a, b, val) ==
    LET r == SourceAccessEnumMut(mutacc.variant, op, mutacc.bytes, a, b, val)
    IN  [mutacc EXCEPT !.bytes = r.data, !.op = op, !.a = a, !.b = b, !.val = val,
                       !.tag = r.tag, !.pre = mutacc.bytes,
                       !.aborted = (r.tag = "panic")]

get_range_mut(a, b, val) ==
    /\ ~mutacc.aborted
    /\ mutacc' = AfterMut("get_range_mut", a, b, val)
    /\ UNCHANGED <<appVars, typed, find, w, access, open, persp, scroll, view, hit>>

slice_range_inclusive_mut(a, b, val) ==
    /\ ~mutacc.aborted
    /\ mutacc' = AfterMut("slice_range_inclusive_mut", a, b, val)
    /\ UNCHANGED <<appVars, typed, find, w, access, open, persp, scroll, view, hit>>

index_byte_mut(idx, val) ==
    /\ ~mutacc.aborted
    /\ mutacc' = AfterMut("index_byte_mut", idx, 0, val)
    /\ UNCHANGED <<appVars, typed, find, w, access, open, persp, scroll, view, hit>>

NextMut ==
    \/ \E a \in MutPositions, b \in MutPositions, val \in ByteVals : get_range_mut(a, b, val)
    \/ \E a \in MutPositions, b \in MutPositions, val \in ByteVals :
          slice_range_inclusive_mut(a, b, val)
    \/ \E idx \in MutPositions, val \in ByteVals : index_byte_mut(idx, val)

\* ------------------------------------------------------------------------
\* The perspective: region, column count, offsets of the view
\* (src/src/app.rs, src/src/ui.rs, src/src/ui/top_menu.rs)
\* ------------------------------------------------------------------------
TopGap == 46
RowHeight == 16
ColWidth == 26

\* an offset_row_col that takes the column modulo one column too many
OffsetRowColWideModulo(cols, offset) == <<offset \div cols, offset % (cols + 1)>>

\* View::offset_row_col; the division panics when cols = 0, which the
\* callers below test before they apply it
OffsetRowCol(cols, offset) == <<offset \div cols, offset % cols>>

\* ViewOffsets.byte in App::view_offsets
ByteOfRowCol(cols, row, col) == row * cols + col

\* Perspective::row_col_of_byte_offset, Perspective::byte_offset_of_row_col:
\* the same two conversions relative to the start of the region
row_col_of_byte_offset(p, offset) == OffsetRowCol(p.cols, offset - p.begin)
byte_offset_of_row_col(p, row, col) == p.begin + ByteOfRowCol(p.cols, row, col)

\* i64 / i64 followed by try_into::<usize>().unwrap_or(0)
DivToUsizeOr0(x, d) == IF x < 0 THEN 0 ELSE x \div d

\* App::view_offsets
view_offsets(p) ==
    LET row_offset == DivToUsizeOr0(p.view_y + TopGap, RowHeight)
        col_offset == DivToUsizeOr0(p.view_x, ColWidth)
    IN  [row |-> row_offset, col |-> col_offset,
         byte |-> ByteOfRowCol(p.cols, row_offset, col_offset)]

\* App::set_view_to_byte_offset
set_view_to_byte_offset(p, offset) ==
    IF p.cols = 0 THEN [p EXCEPT !.panicked = TRUE]
    ELSE LET rc == OffsetRowCol(p.cols, offset)
         IN  [p EXCEPT !.view_x = IF p.lock_x THEN rc[2] * ColWidth ELSE @,
                       !.view_y = IF p.lock_y THEN rc[1] * RowHeight - TopGap ELSE @]

\* the common shape of dec_cols, inc_cols, halve_cols, double_cols: the
\* offset the view shows is taken, the count is changed, the view is put
\* back on the offset
ChangeCols(p, op, cols) ==
    set_view_to_byte_offset([p EXCEPT !.cols = cols, !.op = op, !.offset = 0,
                                      !.rc = <<0, 0>>, !.byte = 0],
                            view_offsets(p).byte)

PerspLen == 5
MaxCols == 4
MaxViewByte == 8

\* the part of the unbounded view offsets that is explored
PerspExplored(p) == view_offsets(p).byte <= MaxViewByte /\ view_offsets(p).col <= MaxCols

\* App::new: no column lock on x, a lock on y, the view at the top left; the
\* region is the whole data, the count of columns is at least 1
PerspStart(cols, end) ==
    [begin |-> 0, end |-> end, cols |-> cols, cursor |-> 0,
     view_x |-> 0, view_y |-> 0 - TopGap, lock_x |-> FALSE, lock_y |-> TRUE,
     op |-> "none", panicked |-> FALSE, offset |-> 0, rc |-> <<0, 0>>, byte |-> 0]

PerspIdle == persp = PerspStart(1, 0)

PerspInit == \E cols \in 1..MaxCols : persp = PerspStart(cols, PerspLen - 1)

\* p at the start of the operation op: what the last conversion of an offset
\* gave is forgotten
PerspAt(p, op) == [p EXCEPT !.op = op, !.offset = 0, !.rc = <<0, 0>>, !.byte = 0]

\* cols = 0 is only ever held by a state that has panicked, so cols - 1 is
\* never taken of 0 here
dec_cols ==
    /\ ~persp.panicked
    /\ persp' = ChangeCols(persp, "dec_cols", persp.cols - 1)
    /\ PerspExplored(persp')
    /\ UNCHANGED <<appVars, typed, find, w, access, open, mutacc, scroll, view, hit>>

inc_cols ==
    /\ ~persp.panicked
    /\ persp.cols + 1 <= MaxCols
    /\ persp' = ChangeCols(persp, "inc_cols", persp.cols + 1)
    /\ PerspExplored(persp')
    /\ UNCHANGED <<appVars, typed, find, w, access, open, mutacc, scroll, view, hit>>

halve_cols ==
    /\ ~persp.panicked
    /\ persp' = ChangeCols(persp, "halve_cols", persp.cols \div 2)
    /\ PerspExplored(persp')
    /\ UNCHANGED <<appVars, typed, find, w, access, open, mutacc, scroll, view, hit>>

double_cols ==
    /\ ~persp.panicked
    /\ persp.cols * 2 <= MaxCols
    /\ persp' = ChangeCols(persp, "double_cols", persp.cols * 2)
    /\ PerspExplored(persp')
    /\ UNCHANGED <<appVars, typed, find, w, access, open, mutacc, scroll, view, hit>>

\* "Seek to byte offset"
seek_to_byte_offset(offset) ==
    /\ ~persp.panicked
    /\ persp' = set_view_to_byte_offset(PerspAt(persp, "other"), offset)
    /\ PerspExplored(persp')
    /\ UNCHANGED <<appVars, typed, find, w, access, open, mutacc, scroll, view, hit>>

\* the two "Lock ... on column change" checkboxes
toggle_lock_x ==
    /\ ~persp.panicked
    /\ persp' = [PerspAt(persp, "other") EXCEPT !.lock_x = ~@]
    /\ UNCHANGED <<appVars, typed, find, w, access, open, mutacc, scroll, view, hit>>

toggle_lock_y ==
    /\ ~persp.panicked
    /\ persp' = [PerspAt(persp, "other") EXCEPT !.lock_y = ~@]
    /\ UNCHANGED <<appVars, typed, find, w, access, open, mutacc, scroll, view, hit>>

\* the cursor is put on a byte of the data
persp_set_cursor(offset) ==
    /\ ~persp.panicked
    /\ persp' = [PerspAt(persp, "other") EXCEPT !.cursor = offset]
    /\ UNCHANGED <<appVars, typed, find, w, access, open, mutacc, scroll, view, hit>>

\* "Set view offset to cursor"
set_view_offset_to_cursor ==
    /\ ~persp.panicked
    /\ persp' = [PerspAt(persp, "other") EXCEPT !.begin = persp.cursor]
    /\ UNCHANGED <<appVars, typed, find, w, access, open, mutacc, scroll, view, hit>>

\* an offset of the region is converted to its row and column and back
row_col_round_trip(offset) ==
    /\ ~persp.panicked
    /\ persp.begin <= offset /\ offset <= persp.end
    /\ LET rc == row_col_of_byte_offset(persp, offset)
       IN  persp' = [persp EXCEPT !.op = "round_trip", !.offset = offset, !.rc = rc,
                                  !.byte = byte_offset_of_row_col(persp, rc[1], rc[2])]
    /\ UNCHANGED <<appVars, typed, find, w, access, open, mutacc, scroll, view, hit>>

NextPersp ==
    \/ dec_cols
    \/ inc_cols
    \/ halve_cols
    \/ double_cols
    \/ \E offset \in 0..(PerspLen - 1) : seek_to_byte_offset(offset)
    \/ toggle_lock_x
    \/ toggle_lock_y
    \/ \E offset \in 0..(PerspLen - 1) : persp_set_cursor(offset)
    \/ set_view_offset_to_cursor
    \/ \E offset \in 0..(PerspLen - 1) : row_col_round_trip(offset)

\* ------------------------------------------------------------------------
\* scroll_impl (src/src/view.rs)
\* ------------------------------------------------------------------------
I16Min == -32768
I16Max == 32767
FitsI16(n) == I16Min <= n /\ n <= I16Max
\* the i16 a wrapping operation leaves: n modulo 2^16, as a signed number
WrapI16(n) == ((n - I16Min) % (I16Max - I16Min + 1)) + I16Min

\* while *pixel <= -pixels_per_whole { if *whole == 0 { break; }
\*     *whole -= 1; *pixel += pixels_per_whole; }
\* The body runs until whole is 0 or pixel is above -pixels_per_whole: that
\* is `steps` times, the least number of cells that lifts pixel above
\* -pixels_per_whole, or `whole` times if that is less.
ScrollTowardsOrigin(whole, pixel, pixels_per_whole) ==
    LET needed == IF pixel > 0 - pixels_per_whole THEN 0
                  ELSE ((0 - pixel - pixels_per_whole) \div pixels_per_whole) + 1
        steps  == IF needed < whole THEN needed ELSE whole
    IN  [whole |-> whole - steps, pixel |-> pixel + steps * pixels_per_whole]

\* while *pixel >= pixels_per_whole { *whole += 1; *pixel -= pixels_per_whole; }
\* The body runs once for every whole cell in pixel (pixel is not negative).
ScrollAwayFromOrigin(whole, pixel, pixels_per_whole) ==
    [whole |-> whole + (pixel \div pixels_per_whole), pixel |-> pixel % pixels_per_whole]

\* scroll_impl.  *pixel += scroll_by is an i16 addition: when the sum does
\* not fit, a build with overflow checks panics and a build without them
\* wraps.  panic tells which; whole and pixel are the two coordinates after
\* the call.
scroll_impl(whole, pixel, pixels_per_whole, scroll_by, overflow_checks) ==
    LET sum == pixel + scroll_by
    IN  IF ~FitsI16(sum) /\ overflow_checks
        THEN [whole |-> whole, pixel |-> pixel, panic |-> TRUE]
        ELSE LET p == WrapI16(sum)
                 r == IF p < 0 THEN ScrollTowardsOrigin(whole, p, pixels_per_whole)
                               ELSE ScrollAwayFromOrigin(whole, p, pixels_per_whole)
             IN  [whole |-> r.whole, pixel |-> r.pixel, panic |-> FALSE]

ScrollCell == 32
MaxCalls == 3
ScrollDeltas == {I16Min, -1000, -640, -320, -10, -1, 1, 10, ScrollCell, 1000, I16Max}
ScrollStarts == {0, 10}

\* one axis at (whole, 0) before any call; overflow_checks is the build
ScrollStart(whole, overflow_checks) ==
    [whole |-> whole, pixel |-> 0, cell |-> ScrollCell, overflow_checks |-> overflow_checks,
     start |-> whole, n |-> 0, sum |-> 0, by |-> 0,
     pre |-> [whole |-> whole, pixel |-> 0], panicked |-> FALSE]

ScrollIdle == scroll = ScrollStart(0, TRUE)

ScrollInit ==
    \E whole \in ScrollStarts, overflow_checks \in BOOLEAN :
        scroll = ScrollStart(whole, overflow_checks)

\* one call of scroll_impl on the axis
ScrollBy(scroll_by) ==
    /\ ~scroll.panicked
    /\ scroll.n < MaxCalls
    /\ LET r == scroll_impl(scroll.whole, scroll.pixel, scroll.cell, scroll_by,
                            scroll.overflow_checks)
       IN  scroll' = [scroll EXCEPT !.whole = r.whole, !.pixel = r.pixel,
                                    !.n = @ + 1, !.sum = @ + scroll_by, !.by = scroll_by,
                                    !.pre = [whole |-> scroll.whole, pixel |-> scroll.pixel],
                                    !.panicked = r.panic]
    /\ UNCHANGED <<appVars, typed, find, w, access, open, mutacc, persp, view, hit>>

NextScroll == \E scroll_by \in ScrollDeltas : ScrollBy(scroll_by)

\* ------------------------------------------------------------------------
\* The scroll operations of a View (src/src/view.rs)
\* ------------------------------------------------------------------------
COMFY_MARGIN == -12
BlockCell == 4

\* i16 / i16: the quotient rounded towards zero (the divisor is positive)
TruncDiv(a, b) == IF a >= 0 THEN a \div b ELSE 0 - ((0 - a) \div b)

\* Perspective::last_row_idx, Perspective::last_col_idx: the row and the
\* column of the last byte of the region
last_row_idx(p) == (p.end - p.begin) \div p.cols
last_col_idx(p) == (p.end - p.begin) % p.cols

\* Perspective::row_col_within_bound: the byte at (row, col) is in the region
row_col_within_bound(p, row, col) ==
    col < p.cols /\ byte_offset_of_row_col(p, row, col) <= p.end

\* View::adjust_block_size: <<col_w, row_h>> of a view of the kind
adjust_block_size(view_kind, font_size) ==
    CASE view_kind = "Hex" -> <<font_size * 2 - 2, font_size>>
      [] view_kind = "Dec" -> <<font_size * 3 - 6, font_size>>
      [] view_kind = "Block" -> <<BlockCell, BlockCell>>

\* View::scroll_x, View::scroll_y
View_scroll_x(v, amount) ==
    LET r == scroll_impl(v.col, v.pix_xoff, v.col_w, amount, v.overflow_checks)
    IN  [v EXCEPT !.col = r.whole, !.pix_xoff = r.pixel, !.panicked = @ \/ r.panic]
View_scroll_y(v, amount) ==
    LET r == scroll_impl(v.row, v.pix_yoff, v.row_h, amount, v.overflow_checks)
    IN  [v EXCEPT !.row = r.whole, !.pix_yoff = r.pixel, !.panicked = @ \/ r.panic]

\* ScrollOffset::floor
ScrollOffset_floor(v) == [v EXCEPT !.pix_xoff = 0, !.pix_yoff = 0]

View_scroll_page_down(v) == View_scroll_y(v, v.h)
View_scroll_page_up(v) == View_scroll_y(v, 0 - v.h)
View_scroll_page_left(v) == View_scroll_x(v, 0 - v.w)

View_go_home(v) ==
    [v EXCEPT !.row = 0, !.col = 0, !.pix_xoff = COMFY_MARGIN, !.pix_yoff = COMFY_MARGIN]

View_scroll_to_end(v, p) ==
    LET at_end == [v EXCEPT !.row = last_row_idx(p) + 1, !.col = last_col_idx(p) + 1]
        paged == ScrollOffset_floor(View_scroll_page_left(View_scroll_page_up(at_end)))
    IN  [paged EXCEPT !.pix_xoff = 0 - COMFY_MARGIN, !.pix_yoff = 0 - COMFY_MARGIN]

\* View::center_on_row_col
View_center_on_row_col(v, row, col) ==
    LET floored == ScrollOffset_floor([v EXCEPT !.row = row, !.col = col])
    IN  View_scroll_y(View_scroll_x(floored, TruncDiv(0 - v.w, 2)), TruncDiv(0 - v.h, 2))

View_center_on_offset(v, offset, p) ==
    LET rc == row_col_of_byte_offset(p, offset)
    IN  View_center_on_row_col(v, rc[1], rc[2])

View_scroll_to_byte_offset(v, offset, p, do_col, do_row) ==
    LET rc == row_col_of_byte_offset(p, offset)
    IN  ScrollOffset_floor([v EXCEPT !.row = IF do_row THEN rc[1] ELSE @,
                                     !.col = IF do_col THEN rc[2] ELSE @])

\* (f64::from(src_off) / (f64::from(src_cell) / f64::from(cell))) as i16.
\* The cast rounds towards zero.  The inner quotient is rounded to a double
\* unless one cell size divides the other by a power of two, so where the
\* exact result src_off * cell / src_cell is a whole number the computed one
\* may fall just short of it and be cast to the number one nearer to zero.
SyncedPix(src_off, src_cell, cell) ==
    LET q == TruncDiv(src_off * cell, src_cell)
        exact == src_cell = cell
        whole == (src_off * cell) % src_cell = 0
    IN  IF exact \/ ~whole \/ q = 0 THEN {q}
        ELSE {q, IF q > 0 THEN q - 1 ELSE q + 1}

\* View::sync_to, the two pixel offsets being yoff and xoff
View_sync_to(v, src_row, src_col, yoff, xoff) ==
    [v EXCEPT !.row = src_row, !.col = src_col, !.pix_yoff = yoff, !.pix_xoff = xoff]

FontSize == 14
ViewW == 40
ViewH == 30
MaxWhole == 2
MaxNegPix == 30
MinPix == 0 - MaxNegPix
ScrollSpeed == 10
ViewLen == 6
ViewCols == 2
ViewKinds == {"Hex", "Block"}
ViewPerspective == [begin |-> 0, end |-> ViewLen - 1, cols |-> ViewCols, flip_row_order |-> FALSE]

\* View::new: the cell size follows from the kind, the scroll offset is the
\* default one
ViewNew(view_kind, overflow_checks) ==
    LET cell == adjust_block_size(view_kind, FontSize)
    IN  [kind |-> view_kind, col_w |-> cell[1], row_h |-> cell[2], w |-> ViewW, h |-> ViewH,
         col |-> 0, pix_xoff |-> 0, row |-> 0, pix_yoff |-> 0,
         overflow_checks |-> overflow_checks, op |-> "none", panicked |-> FALSE]

ViewIdle == view = ViewNew("Hex", TRUE)

ViewInit == \E k \in ViewKinds, overflow_checks \in BOOLEAN : view = ViewNew(k, overflow_checks)

\* the part of the unbounded scroll offsets that is explored
ViewExplored(v) ==
    /\ v.row <= MaxWhole /\ v.col <= MaxWhole
    /\ v.pix_xoff >= MinPix /\ v.pix_yoff >= MinPix

\* the operation that leaves the view as v may be made: the program runs
\* and v is in the explored part
ViewMay(v) == ~view.panicked /\ ViewExplored(v)

scroll_x(amount) ==
    /\ ViewMay(View_scroll_x(view, amount))
    /\ view' = [View_scroll_x(view, amount) EXCEPT !.op = "scroll_x"]
    /\ UNCHANGED <<appVars, typed, find, w, access, open, mutacc, persp, scroll, hit>>

scroll_y(amount) ==
    /\ ViewMay(View_scroll_y(view, amount))
    /\ view' = [View_scroll_y(view, amount) EXCEPT !.op = "scroll_y"]
    /\ UNCHANGED <<appVars, typed, find, w, access, open, mutacc, persp, scroll, hit>>

scroll_page_down ==
    /\ ViewMay(View_scroll_page_down(view))
    /\ view' = [View_scroll_page_down(view) EXCEPT !.op = "scroll_page_down"]
    /\ UNCHANGED <<appVars, typed, find, w, access, open, mutacc, persp, scroll, hit>>

scroll_page_up ==
    /\ ViewMay(View_scroll_page_up(view))
    /\ view' = [View_scroll_page_up(view) EXCEPT !.op = "scroll_page_up"]
    /\ UNCHANGED <<appVars, typed, find, w, access, open, mutacc, persp, scroll, hit>>

scroll_page_left ==
    /\ ViewMay(View_scroll_page_left(view))
    /\ view' = [View_scroll_page_left(view) EXCEPT !.op = "scroll_page_left"]
    /\ UNCHANGED <<appVars, typed, find, w, access, open, mutacc, persp, scroll, hit>>

go_home ==
    /\ ViewMay(View_go_home(view))
    /\ view' = [View_go_home(view) EXCEPT !.op = "go_home"]
    /\ UNCHANGED <<appVars, typed, find, w, access, open, mutacc, persp, scroll, hit>>

scroll_to_end ==
    /\ ViewMay(View_scroll_to_end(view, ViewPerspective))
    /\ view' = [View_scroll_to_end(view, ViewPerspective) EXCEPT !.op = "scroll_to_end"]
    /\ UNCHANGED <<appVars, typed, find, w, access, open, mutacc, persp, scroll, hit>>

center_on_offset(offset) ==
    /\ ViewMay(View_center_on_offset(view, offset, ViewPerspective))
    /\ view' = [View_center_on_offset(view, offset, ViewPerspective) EXCEPT !.op = "center_on_offset"]
    /\ UNCHANGED <<appVars, typed, find, w, access, open, mutacc, persp, scroll, hit>>

scroll_to_byte_offset(offset, do_col, do_row) ==
    /\ ViewMay(View_scroll_to_byte_offset(view, offset, ViewPerspective, do_col, do_row))
    /\ view' = [View_scroll_to_byte_offset(view, offset, ViewPerspective, do_col, do_row) EXCEPT !.op = "scroll_to_byte_offset"]
    /\ UNCHANGED <<appVars, typed, find, w, access, open, mutacc, persp, scroll, hit>>

\* the view follows another view, of kind src_kind, that is at src
sync_to(src_kind, src) ==
    \E yoff \in SyncedPix(src.pix_yoff, adjust_block_size(src_kind, FontSize)[2], view.row_h),
       xoff \in SyncedPix(src.pix_xoff, adjust_block_size(src_kind, FontSize)[1], view.col_w) :
        /\ ViewMay(View_sync_to(view, src.row, src.col, yoff, xoff))
        /\ view' = [View_sync_to(view, src.row, src.col, yoff, xoff) EXCEPT !.op = "sync_to"]
        /\ UNCHANGED <<appVars, typed, find, w, access, open, mutacc, persp, scroll, hit>>

\* the scroll offsets of the view that is followed
SyncSources ==
    {[row |-> whole, col |-> whole, pix_yoff |-> pix, pix_xoff |-> pix] :
        whole \in 0..1, pix \in {COMFY_MARGIN, 0, BlockCell - 1}}

NextView ==
    \/ \E amount \in {0 - ScrollSpeed, ScrollSpeed} : scroll_x(amount)
    \/ \E amount \in {0 - ScrollSpeed, ScrollSpeed} : scroll_y(amount)
    \/ scroll_page_down
    \/ scroll_page_up
    \/ scroll_page_left
    \/ go_home
    \/ scroll_to_end
    \/ \E offset \in 0..(ViewLen - 1) : center_on_offset(offset)
    \/ \E offset \in 0..(ViewLen - 1), do_col \in BOOLEAN, do_row \in BOOLEAN :
          scroll_to_byte_offset(offset, do_col, do_row)
    \/ \E src_kind \in ViewKinds, src \in SyncSources : sync_to(src_kind, src)

\* ------------------------------------------------------------------------
\* View::row_col_offset_of_pos (src/src/view.rs)
\* ------------------------------------------------------------------------
\* the result of an i16 operation whose exact value is n: a build with
\* overflow checks panics when n does not fit, a build without them wraps
ArithI16(n, overflow_checks) ==
    IF FitsI16(n) THEN [panic |-> FALSE, val |-> n]
    ELSE IF overflow_checks THEN [panic |-> TRUE, val |-> 0]
    ELSE [panic |-> FALSE, val |-> WrapI16(n)]

\* whole + rel as usize, rel being an i16.  A negative rel is cast to
\* 2^64 + rel: the sum then overflows when whole + rel >= 0 (a panic with
\* overflow checks, whole + rel without them) and is otherwise a number
\* above every index (huge).
AddAsUsize(whole, rel, overflow_checks) ==
    IF rel >= 0 THEN [panic |-> FALSE, huge |-> FALSE, val |-> whole + rel]
    ELSE IF whole + rel >= 0
         THEN [panic |-> overflow_checks, huge |-> FALSE, val |-> whole + rel]
         ELSE [panic |-> FALSE, huge |-> TRUE, val |-> 0]

HitNone == [tag |-> "none", rc |-> <<>>]
HitSome(row, col) == [tag |-> "some", rc |-> <<row, col>>]
HitPanic == [tag |-> "panic", rc |-> <<>>]

\* ViewportRect::contains_pos; panic tells that self.x + self.w or
\* self.y + self.h overflowed in a build with overflow checks
contains_pos(v, x, y) ==
    LET right == ArithI16(v.x + v.w, v.overflow_checks)
        bottom == ArithI16(v.y + v.h, v.overflow_checks)
    IN  IF x >= v.x /\ y >= v.y
        THEN IF right.panic THEN [panic |-> TRUE, val |-> FALSE]
             ELSE IF x <= right.val
                  THEN [panic |-> bottom.panic, val |-> ~bottom.panic /\ y <= bottom.val]
                  ELSE [panic |-> FALSE, val |-> FALSE]
        ELSE [panic |-> FALSE, val |-> FALSE]

\* View::rows
View_rows(v) == TruncDiv(v.h, v.row_h)

\* View::row_col_of_rel_pos
row_col_of_rel_pos(v, x, y, p) ==
    LET rel_x == ArithI16(x + v.pix_xoff, v.overflow_checks)
        rel_y == ArithI16(y + v.pix_yoff, v.overflow_checks)
    IN  IF rel_x.panic \/ rel_y.panic \/ v.col_w = 0 \/ v.row_h = 0 THEN HitPanic
        ELSE
        LET rel_col == TruncDiv(rel_x.val, v.col_w)
            unflipped == TruncDiv(rel_y.val, v.row_h)
            rel_row == IF p.flip_row_order
                       THEN ArithI16(View_rows(v) - unflipped, v.overflow_checks)
                       ELSE [panic |-> FALSE, val |-> unflipped]
        IN  IF rel_row.panic THEN HitPanic
            ELSE IF rel_x.val > 0 /\ rel_y.val > 0
            THEN LET abs_row == AddAsUsize(v.row, rel_row.val, v.overflow_checks)
                     abs_col == AddAsUsize(v.col, rel_col, v.overflow_checks)
                 IN  IF abs_row.panic \/ abs_col.panic THEN HitPanic
                     ELSE IF ~abs_row.huge /\ ~abs_col.huge
                             /\ row_col_within_bound(p, abs_row.val, abs_col.val)
                          THEN HitSome(abs_row.val, abs_col.val)
                          ELSE HitNone
            ELSE HitNone

\* ViewportRect::relative_offset_of_pos followed by row_col_of_rel_pos
row_col_offset_of_pos(v, x, y, p) ==
    LET inside == contains_pos(v, x, y)
        rx == ArithI16(x - v.x, v.overflow_checks)
        ry == ArithI16(y - v.y, v.overflow_checks)
    IN  IF inside.panic THEN HitPanic
        ELSE IF ~inside.val THEN HitNone
        ELSE IF rx.panic \/ ry.panic THEN HitPanic
        ELSE row_col_of_rel_pos(v, rx.val, ry.val, p)

HitOrigins == {0, 10}
HitPix == {COMFY_MARGIN, 0, 0 - COMFY_MARGIN}
HitXs == {-1, 0, 1, ViewW - 1, ViewW, ViewW + 10, ViewW + 11}
HitYs == {-1, 0, 1, ViewH - 1, ViewH, ViewH + 10, ViewH + 11}

\* a view of the kind, its rectangle at (origin, origin), scrolled to
\* (whole, whole) with both pixel offsets pix, over a perspective whose rows
\* are flipped or not; no position was asked about yet
HitStart(view_kind, origin, whole, pix, flip, overflow_checks) ==
    [v |-> [ViewNew(view_kind, overflow_checks) EXCEPT
                !.row = whole, !.col = whole, !.pix_xoff = pix, !.pix_yoff = pix]
           @@ [x |-> origin, y |-> origin],
     p |-> [ViewPerspective EXCEPT !.flip_row_order = flip],
     asked |-> FALSE, x |-> 0, y |-> 0, res |-> HitNone]

HitIdle == hit = HitStart("Hex", 0, 0, 0, FALSE, TRUE)

HitInit ==
    \E k \in ViewKinds, origin \in HitOrigins, whole \in 0..1, pix \in HitPix,
       flip \in BOOLEAN, overflow_checks \in BOOLEAN :
        hit = HitStart(k, origin, whole, pix, flip, overflow_checks)

\* the pointer is at (x, y): which row and column is it on
AskPos(x, y) ==
    /\ hit' = [hit EXCEPT !.asked = TRUE, !.x = x, !.y = y,
                          !.res = row_col_offset_of_pos(hit.v, x, y, hit.p)]
    /\ UNCHANGED <<appVars, typed, find, w, access, open, mutacc, persp, scroll, view>>

NextHit == \E x \in HitXs, y \in HitYs : AskPos(x, y)

ExtIdle == MutIdle /\ PerspIdle /\ ScrollIdle /\ ViewIdle /\ HitIdle

\* ------------------------------------------------------------------------
\* Text entry with its history (SpecEdit): every character the focused view
\* is handed, accepted or not, and what the handler did with it
\* ------------------------------------------------------------------------
MaxKeys == 3

\* no character handed to the view yet
NoKeys == [keys |-> <<>>, pre |-> None]

TypedIdle == typed = NoKeys

\* the event loop hands one character to View::handle_text_entered, which
\* ignores it unless char_valid accepts it. typed: the characters handed so
\* far and the state the last one found.
TextEntered(unicode, io) ==
    /\ ~panicked
    /\ Len(typed.keys) < MaxKeys
    /\ IF CharValid(kind, unicode)
       THEN HandleTextEntered(unicode, io)
       ELSE /\ last' = NoCall
            /\ UNCHANGED <<data, files, file, args, dirty_region, cursor, selection,
                           select_begin, prefs, kind, edit_buf, panicked, modified,
                           w, access, open, extVars>>
    /\ typed' = IF panicked'
                THEN typed
                ELSE [keys |-> Append(typed.keys, unicode),
                      pre |-> Some([cursor |-> cursor, data |-> data,
                                    dirty |-> dirty_region, edit_buf |-> edit_buf])]


\* ------------------------------------------------------------------------
\* The find dialog (SpecFind): one frame of the "Find" window per action
\* ------------------------------------------------------------------------
FindLen == 3
FindBytes == {0, 1}
FindNeedles == {None} \cup {Some(b) : b \in FindBytes}

\* the offsets of the bytes of d equal to needle, ascending
RECURSIVE MatchOffsets(_, _, _)
MatchOffsets(d, needle, from) ==
    IF from >= Len(d) THEN <<>>
    ELSE IF d[from + 1] = needle
         THEN <<from>> \o MatchOffsets(d, needle, from + 1)
         ELSE MatchOffsets(d, needle, from + 1)

\* App::search_focus: the cursor is set; centring the view changes no field
\* of the dialog
search_focus(f, offset) == [f EXCEPT !.cursor = offset]

\* the result list is drawn: a pending scroll_to is taken by its label
FindDrawList(f) ==
    IF IsSome(f.scroll_to) /\ Unwrap(f.scroll_to) < Len(f.result_offsets)
    THEN [f EXCEPT !.scroll_to = None]
    ELSE f

\* Enter in the input field: input.parse().unwrap(), then the new search
FindSearch(f, needle) ==
    IF ~IsSome(needle)
    THEN [f EXCEPT !.panicked = TRUE]
    ELSE LET offs == MatchOffsets(f.data, Unwrap(needle), 0)
             f1   == [f EXCEPT !.result_offsets = offs]
         IN  FindDrawList(IF Len(offs) > 0 THEN search_focus(f1, offs[1]) ELSE f1)

\* a click on the i-th label of the list
FindClick(f, i) ==
    LET f1 == FindDrawList(f)
    IN  [search_focus(f1, f1.result_offsets[i + 1]) EXCEPT !.result_cursor = i]

\* "Previous (P)": the button or the P key
FindPrevious(f) ==
    LET f1 == FindDrawList(f)
    IN  IF f1.result_cursor > 0
        THEN LET c == f1.result_cursor - 1
             IN  IF c >= Len(f1.result_offsets)
                 THEN [f1 EXCEPT !.result_cursor = c, !.panicked = TRUE]
                 ELSE [search_focus(f1, f1.result_offsets[c + 1])
                          EXCEPT !.result_cursor = c, !.scroll_to = Some(c)]
        ELSE f1

\* "Next (N)": the button or the N key
FindNext(f) ==
    LET f1 == FindDrawList(f)
    IN  IF f1.result_cursor + 1 < Len(f1.result_offsets)
        THEN LET c == f1.result_cursor + 1
             IN  [search_focus(f1, f1.result_offsets[c + 1])
                     EXCEPT !.result_cursor = c, !.scroll_to = Some(c)]
        ELSE f1

\* FindDialog::default() over the bytes d
FindStart(d) ==
    [data |-> d, result_offsets |-> <<>>, result_cursor |-> 0, scroll_to |-> None,
     cursor |-> 0, op |-> "none", panicked |-> FALSE]

FindIdle == find = FindStart(<<>>)

FindInit == find \in {FindStart(d) : d \in [1..FindLen -> FindBytes]}

search(needle) ==
    /\ ~find.panicked
    /\ find' = [FindSearch(find, needle) EXCEPT !.op = "search"]
    /\ UNCHANGED <<appVars, typed, w, access, open, mutacc, persp, scroll, view, hit>>

click(i) ==
    /\ ~find.panicked
    /\ i < Len(find.result_offsets)
    /\ find' = [FindClick(find, i) EXCEPT !.op = "click"]
    /\ UNCHANGED <<appVars, typed, w, access, open, mutacc, persp, scroll, view, hit>>

previous ==
    /\ ~find.panicked
    /\ find' = [FindPrevious(find) EXCEPT !.op = "previous"]
    /\ UNCHANGED <<appVars, typed, w, access, open, mutacc, persp, scroll, view, hit>>

next ==
    /\ ~find.panicked
    /\ find' = [FindNext(find) EXCEPT !.op = "next"]
    /\ UNCHANGED <<appVars, typed, w, access, open, mutacc, persp, scroll, view, hit>>

NextFind ==
    \/ \E needle \in FindNeedles : search(needle)
    \/ \E i \in 0..(FindLen - 1) : click(i)
    \/ previous
    \/ next


\* ------------------------------------------------------------------------
\* Initial states
\* ------------------------------------------------------------------------
FileLen == 2
Paths == {"a"}
InitFiles == [p \in Paths |-> [i \in 1..FileLen |-> 0]]

\* App::new: the file named by the arguments is opened and read
AppInit(argSet, prefSet, kindSet) ==
    /\ files = InitFiles
    /\ args \in argSet
    /\ file = args.file
    /\ data = IF IsSome(args.file) THEN ReadContents(args, files[Unwrap(args.file)])
                                   ELSE <<>>
    /\ dirty_region = None
    /\ cursor = 0
    /\ selection = None
    /\ select_begin = None
    /\ prefs \in prefSet
    /\ kind \in kindSet
    /\ edit_buf = NewEditBuffer(kind)
    /\ panicked = FALSE
    /\ modified = {}
    /\ last = NoCall

\* no file, nothing typed: the application part of a specification that is
\* not about it
AppIdle ==
    AppInit({[file |-> None, read_only |-> FALSE, hard_seek |-> None, take |-> None]},
            {[auto_save |-> FALSE, sticky_edit |-> FALSE, quick_edit |-> FALSE]},
            {"Hex"})

vars == <<data, files, file, args, dirty_region, cursor, selection, select_begin,
          prefs, kind, edit_buf, panicked, modified, last, w, access, open, extVars, typed>>

InitWiden == AppIdle /\ WInit /\ TypedIdle /\ FindIdle /\ AccessIdle /\ OpenIdle /\ ExtIdle

InitAccess == AppIdle /\ WInit /\ TypedIdle /\ FindIdle /\ AccessInit /\ OpenIdle /\ ExtIdle

SpecAccess == InitAccess /\ [][NextAccess]_vars

InitOpen == AppIdle /\ WInit /\ TypedIdle /\ FindIdle /\ AccessIdle /\ OpenIdle /\ ExtIdle

SpecOpen == InitOpen /\ [][NextOpen]_vars

NextWiden == \E b \in Offsets, e \in OptOffsets : WidenCall(b, e)

SpecWiden == InitWiden /\ [][NextWiden]_vars

\* ------------------------------------------------------------------------
\* Spec: the application
\* ------------------------------------------------------------------------
Keys == {48}                        \* the characters typed: '0'
U8Inputs == {None, Some(48)}        \* the u8 field: unparsable, or 48 (the code of the key typed)
FillPatterns == {<<48>>}
RandBytes == {0, 48}
ArgSet == [file : {None} \cup {Some(p) : p \in Paths}, read_only : BOOLEAN,
           hard_seek : {None, Some(1)}, take : {None}]
PrefSet == [auto_save : BOOLEAN, sticky_edit : {FALSE}, quick_edit : {FALSE}]
KindSet == {"Hex", "Dec", "Text", "Block"}

Init == AppInit(ArgSet, PrefSet, KindSet) /\ WInit /\ TypedIdle /\ FindIdle /\ AccessIdle /\ OpenIdle /\ ExtIdle

NoIo == [fail |-> "none", wrote |-> 0, overflow_checks |-> FALSE]

NextFile ==
    \/ \E io \in IoOutcomes(FileLen - 1) : SaveButton(io)
    \/ \E ok \in BOOLEAN : Reload(ok)
    \/ \E path \in Paths, o \in BOOLEAN, r \in BOOLEAN : LoadFile(path, o, r)
    \/ CloseFile

NextSelect ==
    \/ \E pat \in FillPatterns : FillPattern(pat)
    \/ \E rnd \in [1..FileLen -> RandBytes] : FillRandom(rnd)
    \/ SetSelectBegin
    \/ SetSelectEnd
    \/ Unselect

Next ==
    \/ \E c \in Keys, io \in IF prefs.auto_save THEN IoOutcomes(FileLen - 1) ELSE {NoIo} :
            HandleTextEntered(c, io) /\ UNCHANGED typed
    \/ \E v \in U8Inputs : U8Entry(v)
    \/ \E off \in 0..FileLen : SetCursor(off)
    \/ NextFile

Spec == Init /\ [][Next]_vars

\* ------------------------------------------------------------------------
\* SpecFill: the application with selections and fills, on a file opened
\* read-write from its start or from hard_seek 1, saved with the Save button
\* ------------------------------------------------------------------------
FillArgSet == [file : {Some(p) : p \in Paths}, read_only : {FALSE},
               hard_seek : {None, Some(1)}, take : {None}]
FillPrefSet == [auto_save : {FALSE}, sticky_edit : {FALSE}, quick_edit : {FALSE}]

InitFill == AppInit(FillArgSet, FillPrefSet, KindSet) /\ WInit /\ TypedIdle /\ FindIdle /\ AccessIdle /\ OpenIdle /\ ExtIdle

\* the cursor is set to offsets of the file only
NextFill ==
    \/ \E c \in Keys : HandleTextEntered(c, NoIo) /\ UNCHANGED typed
    \/ \E v \in U8Inputs : U8Entry(v)
    \/ \E off \in 0..(FileLen - 1) : SetCursor(off)
    \/ NextFile
    \/ NextSelect

SpecFill == InitFill /\ [][NextFill]_vars

\* ------------------------------------------------------------------------
\* SpecDec: a Dec view with auto-save on a file opened read-write. The text
\* typed is 999, which does not parse, so finish_editing reaches save() with
\* whatever is tracked, nothing included; bytes are written by the u8 field.
\* ------------------------------------------------------------------------
DecKeys == {57}                     \* '9'
DecU8Inputs == {Some(48)}
DecArgSet == [file : {Some(p) : p \in Paths}, read_only : {FALSE},
              hard_seek : {None}, take : {None}]
DecPrefSet == [auto_save : {TRUE}, sticky_edit : {FALSE}, quick_edit : {FALSE}]

InitDec == AppInit(DecArgSet, DecPrefSet, {"Dec"}) /\ WInit /\ TypedIdle /\ FindIdle /\ AccessIdle /\ OpenIdle /\ ExtIdle

NextDec ==
    \/ \E c \in DecKeys, io \in IoOutcomes(FileLen - 1) : HandleTextEntered(c, io) /\ UNCHANGED typed
    \/ \E v \in DecU8Inputs : U8Entry(v)
    \/ \E off \in 0..(FileLen - 1) : SetCursor(off)
    \/ NextFile

SpecDec == InitDec /\ [][NextDec]_vars

\* ------------------------------------------------------------------------
\* The specifications of the accessors' writes, the perspective, scrolling
\* and the pointer position
\* ------------------------------------------------------------------------
InitMut ==
    /\ AppIdle /\ WInit /\ TypedIdle /\ FindIdle /\ AccessIdle /\ OpenIdle
    /\ MutInit /\ PerspIdle /\ ScrollIdle /\ ViewIdle /\ HitIdle

SpecMut == InitMut /\ [][NextMut]_vars

InitPersp ==
    /\ AppIdle /\ WInit /\ TypedIdle /\ FindIdle /\ AccessIdle /\ OpenIdle
    /\ MutIdle /\ PerspInit /\ ScrollIdle /\ ViewIdle /\ HitIdle

SpecPersp == InitPersp /\ [][NextPersp]_vars

InitScroll ==
    /\ AppIdle /\ WInit /\ TypedIdle /\ FindIdle /\ AccessIdle /\ OpenIdle
    /\ MutIdle /\ PerspIdle /\ ScrollInit /\ ViewIdle /\ HitIdle

SpecScroll == InitScroll /\ [][NextScroll]_vars

InitView ==
    /\ AppIdle /\ WInit /\ TypedIdle /\ FindIdle /\ AccessIdle /\ OpenIdle
    /\ MutIdle /\ PerspIdle /\ ScrollIdle /\ ViewInit /\ HitIdle

SpecView == InitView /\ [][NextView]_vars

InitHit ==
    /\ AppIdle /\ WInit /\ TypedIdle /\ FindIdle /\ AccessIdle /\ OpenIdle
    /\ MutIdle /\ PerspIdle /\ ScrollIdle /\ ViewIdle /\ HitInit

SpecHit == InitHit /\ [][NextHit]_vars


\* ------------------------------------------------------------------------
\* SpecEdit: characters typed into a Hex, Dec or Text view on a file opened
\* read-write, from every cursor offset and content
\* ------------------------------------------------------------------------
EditBytes == {0, 63}                \* 0x00, 0x3F
EditKeys == {49, 53, 65, 97}        \* '1', '5', 'A', 'a'
\* how the save of an auto-saving commit goes: the regions are single bytes
EditIo == {io \in IoOutcomes(0) : ~io.overflow_checks}
EditArgs == [file |-> Some("a"), read_only |-> FALSE, hard_seek |-> None, take |-> None]
EditPrefSet == [auto_save : BOOLEAN, sticky_edit : BOOLEAN, quick_edit : BOOLEAN]

\* the byte under the cursor is any of EditBytes, the others are 0. The
\* tracker at the start: untracked, or one byte of the buffer tracked, as
\* the u8 field leaves it when the value entered is the one already there
InitEdit ==
    /\ cursor \in 0..(FileLen - 1)
    /\ files \in [Paths -> {[i \in 1..FileLen |-> IF i = cursor + 1 THEN b ELSE 0] :
                                b \in EditBytes}]
    /\ args = EditArgs
    /\ file = args.file
    /\ data = ReadContents(args, files[Unwrap(args.file)])
    /\ dirty_region \in {None} \cup {Some(Region(o, o)) : o \in 0..(FileLen - 1)}
    /\ selection = None
    /\ select_begin = None
    /\ prefs \in EditPrefSet
    /\ kind \in {"Hex", "Dec", "Text"}
    /\ edit_buf = NewEditBuffer(kind)
    /\ panicked = FALSE
    /\ modified = IF IsSome(dirty_region) THEN {Unwrap(dirty_region).begin} ELSE {}
    /\ last = NoCall
    /\ WInit /\ TypedIdle /\ FindIdle /\ AccessIdle /\ OpenIdle /\ ExtIdle

NextEdit ==
    \E unicode \in EditKeys,
       io \in IF prefs.auto_save THEN EditIo ELSE {NoIo} :
        TextEntered(unicode, io)

SpecEdit == InitEdit /\ [][NextEdit]_vars

\* ------------------------------------------------------------------------
\* SpecFind: the find dialog over every content
\* ------------------------------------------------------------------------
InitFind ==
    /\ AppIdle /\ WInit /\ TypedIdle /\ AccessIdle /\ OpenIdle
    /\ MutIdle /\ PerspIdle /\ ScrollIdle /\ ViewIdle /\ HitIdle /\ FindInit

SpecFind == InitFind /\ [][NextFind]_vars


\* ------------------------------------------------------------------------
\* The dirty-region tracker
\* ------------------------------------------------------------------------
\* C1: every offset written by an edit commit, a u8 entry, a pattern fill or
\* a random fill since the last successful save or reload lies inside the
\* tracked region, and the region is tracked if any byte was written.
C1_ModifiedWithinDirtyRegion ==
    modified # {} =>
        /\ IsSome(dirty_region)
        /\ \A o \in modified :
              Unwrap(dirty_region).begin <= o /\ o <= Unwrap(dirty_region).end

\* both bytes were written, one of them by a fill, and nothing was saved since
C1_Witness ==
    /\ ~panicked
    /\ modified = {0, 1}
    /\ data = <<48, 48>>
    /\ files["a"] = <<0, 0>>
    /\ dirty_region = Some(Region(0, 1))

\* C2: from an untracked tracker, after widen calls that all returned
\* normally and all had end absent or >= begin, the tracked region is
\* exactly [least begin, greatest begin-or-supplied-end]; a first call
\* widen(b, None) yields [b, b].
C2_WidenIsBoundingRange ==
    (w.called /\ w.wf /\ ~panicked) =>
        /\ dirty_region = Some(Region(w.min, w.max))
        /\ (w.pre = None /\ w.end = None) => dirty_region = Some(Region(w.begin, w.begin))

\* widen(5, None) then widen(3, Some(10)) was made and left [3, 10]
C2_Witness ==
    /\ w.called /\ w.wf /\ ~panicked
    /\ w.pre = Some(Region(5, 5))
    /\ w.begin = 3 /\ w.end = Some(10)
    /\ dirty_region = Some(Region(3, 10))

\* C3: the tracker only grows. A step from a tracked region [b, e] either
\* leaves a tracked region [b', e'] with b' <= b and e' >= e, or leaves the
\* tracker untracked, and then the step was a save() or a reload() that
\* succeeded.
C3_TrackerOnlyGrows ==
    [][IsSome(dirty_region) =>
          IF IsSome(dirty_region')
          THEN /\ Unwrap(dirty_region').begin <= Unwrap(dirty_region).begin
               /\ Unwrap(dirty_region').end >= Unwrap(dirty_region).end
          ELSE last'.op \in {"save", "reload"} /\ last'.res = "ok"]_vars

\* a save() failed on a region that edits had widened to both bytes, and the
\* region is still tracked
C3_Witness ==
    /\ last.op = "save" /\ last.res = "err"
    /\ modified = {0, 1}
    /\ Unwrap(last.pre).dirty = Some(Region(0, 1))
    /\ dirty_region = Some(Region(0, 1))

\* C4 (as the code has it): widen(begin, Some(end)) panics exactly when a
\* region is tracked and the supplied end is lower than both the begin
\* tracked before the call and the supplied begin; it never panics when
\* nothing is tracked or no end is supplied.
C4_PanicsIffEndBelowLoweredBegin ==
    w.called =>
        (panicked <=> /\ IsSome(w.pre)
                      /\ IsSome(w.end)
                      /\ Unwrap(w.end) < Unwrap(w.pre).begin
                      /\ Unwrap(w.end) < w.begin)

\* widen(4, Some(3)) on the tracked region [5, 7] panicked
C4_Witness ==
    /\ panicked
    /\ w.pre = Some(Region(5, 7))
    /\ w.begin = 4
    /\ w.end = Some(3)

\* C4 as stated: a panic whenever a region is tracked and the supplied end is
\* lower than the begin tracked before the call; none when untracked or when
\* no end is supplied.
C4_PanicsWheneverEndBelowTrackedBegin ==
    w.called =>
        /\ (IsSome(w.pre) /\ IsSome(w.end) /\ Unwrap(w.end) < Unwrap(w.pre).begin)
              => panicked
        /\ (w.pre = None \/ w.end = None) => ~panicked

\* ------------------------------------------------------------------------
\* save()
\* ------------------------------------------------------------------------
\* C5: a successful save() of a tracked region [b, e] writes exactly
\* data[b..=e] at file offsets hard_seek+b ..= hard_seek+e and leaves every
\* other byte of the file, and every other file, as it was.
C5_SaveWritesOnlyTheRegion ==
    (last.op = "save" /\ last.res = "ok" /\ IsSome(Unwrap(last.pre).dirty)) =>
        LET pre == Unwrap(last.pre)
            b   == Unwrap(pre.dirty).begin
            e   == Unwrap(pre.dirty).end
            hs  == HardSeek(args)
            p   == Unwrap(file)
        IN  /\ last.wrote = Some([pos |-> hs + b, bytes |-> Slice(pre.data, b, e + 1)])
            /\ Len(Unwrap(last.wrote).bytes) = (e - b) + 1
            /\ \A o \in b..e : files[p][hs + o + 1] = pre.data[o + 1]
            /\ Len(files[p]) = Len(pre.files[p])
            /\ \A i \in 1..Len(pre.files[p]) :
                  (i - 1 < hs + b \/ i - 1 > hs + e) => files[p][i] = pre.files[p][i]
            /\ \A q \in (DOMAIN files) \ {p} : files[q] = pre.files[q]

\* with hard_seek = 1 the one edited byte of the buffer went to file offset 1
\* and file offset 0 kept its value
C5_Witness ==
    /\ last.op = "save" /\ last.res = "ok"
    /\ args.hard_seek = Some(1)
    /\ Unwrap(last.pre).dirty = Some(Region(0, 0))
    /\ Unwrap(last.pre).data = <<48>>
    /\ Unwrap(last.pre).files["a"] = <<0, 0>>
    /\ files["a"] = <<0, 48>>

\* C6 (as the code has it): a save() that succeeds leaves the tracker
\* untracked; a save() that returns an error leaves the tracker as it was
\* before the call, so it is untracked after a failed save only if it was
\* untracked before.
C6_SaveClearsOnlyOnSuccess ==
    last.op = "save" =>
        /\ last.res = "ok" => dirty_region = None
        /\ last.res = "err" => dirty_region = Unwrap(last.pre).dirty

\* a write failed part-way on the tracked region [0, 1] and the region is kept
C6_Witness ==
    /\ last.op = "save" /\ last.res = "err"
    /\ IsSome(last.wrote)
    /\ Len(Unwrap(last.wrote).bytes) = 1
    /\ Unwrap(last.pre).dirty = Some(Region(0, 1))
    /\ dirty_region = Some(Region(0, 1))

\* C6 as stated: after save() the tracker is untracked exactly when the save
\* succeeded, and an error leaves the region of before the call.
C6_UntrackedExactlyOnSuccess ==
    last.op = "save" =>
        /\ dirty_region = None <=> last.res = "ok"
        /\ last.res = "err" => dirty_region = Unwrap(last.pre).dirty

\* C7: save() returns an error and writes nothing whenever no file is open or
\* the file is read-only, whichever path called it.
C7_SaveRefusedWithoutWritableFile ==
    (last.op = "save" /\ (file = None \/ args.read_only)) =>
        /\ last.res = "err"
        /\ last.wrote = None
        /\ files = Unwrap(last.pre).files

\* ------------------------------------------------------------------------
\* Opening a file, and the reads of the accessors
\* ------------------------------------------------------------------------
\* C8: when open_file_from_args returns false, the accessor's buffer (and so
\* source_len()), the bound source, args.file and the recent-files list are
\* what they were before the call.
C8_FailedOpenChangesNothing ==
    open.ret = Some(FALSE) =>
        /\ open.buf = Unwrap(open.pre).buf
        /\ Len(open.buf) = Len(Unwrap(open.pre).buf)
        /\ open.source = Unwrap(open.pre).source
        /\ open.args.file = Unwrap(open.pre).args.file
        /\ open.recent = Unwrap(open.pre).recent

\* C9: for both variants, every start <= source_len() and every bound, the
\* bounded reads return data[start .. min(start + bound, source_len())].
C9_BoundedReadReturnsAtMostBound ==
    (access.op \in {"slice_range_from_upper_bound", "get_range_from_upper_bound"}
        /\ access.a <= Len(access.bytes)) =>
        LET expect == OkRes(Slice(access.bytes, access.a,
                                  Min2(access.a + access.b, Len(access.bytes))))
        IN  access.single = expect /\ access.memmap = expect

\* C10: the two variants, holding the same bytes, return the same result for
\* every read with the same arguments.
C10_VariantsAgree ==
    access.op # "none" => access.single = access.memmap

\* ------------------------------------------------------------------------
\* The accessors' writes
\* ------------------------------------------------------------------------
\* C11: on a memory-mapped source each of get_range_mut,
\* slice_range_inclusive_mut and index_byte_mut aborts the program: it hands
\* out neither a slice nor None, and the bytes of the source (so also their
\* number) are what they were before the call.
C11_MemmapMutationsAbort ==
    (mutacc.variant = "Memmap" /\ mutacc.op # "none") =>
        /\ mutacc.tag = "panic"
        /\ mutacc.aborted
        /\ mutacc.bytes = mutacc.pre

\* a byte of a memory map was to be replaced by a different one
C11_Witness ==
    /\ mutacc.variant = "Memmap"
    /\ mutacc.op = "index_byte_mut"
    /\ mutacc.a < Len(mutacc.pre)
    /\ mutacc.pre[mutacc.a + 1] # mutacc.val
    /\ mutacc.tag = "panic"

\* C12: on a source opened read-only (no write permission) no mutating
\* operation succeeds, and the bytes of the source are what they were before
\* the call.
C12_ReadOnlySourceRejectsWrites ==
    (~mutacc.write /\ mutacc.op # "none") =>
        /\ mutacc.tag # "ok"
        /\ mutacc.bytes = mutacc.pre

\* C13: find_iter with a non-empty needle yields, in ascending order, every
\* offset at which the needle occurs in the source, overlapping occurrences
\* included.
C13_FindIterYieldsEveryMatch ==
    (access.op = "find_iter" /\ access.needle # <<>>) =>
        LET n    == Len(access.needle)
            hits == {i \in 0..(Len(access.bytes) - n) :
                        Slice(access.bytes, i, i + n) = access.needle}
            r    == access.single.val
        IN  /\ access.single.tag = "ok"
            /\ access.memmap = access.single
            /\ {r[i] : i \in DOMAIN r} = hits
            /\ \A i \in 1..(Len(r) - 1) : r[i] < r[i + 1]

C15_ColsAtLeastOne == persp.cols >= 1 /\ ~persp.panicked

\* C16: every region the program holds has begin <= end: the dirty region
\* and the selection.
C16_RegionsAreOrdered ==
    /\ IsSome(dirty_region) => Unwrap(dirty_region).begin <= Unwrap(dirty_region).end
    /\ IsSome(selection) => Unwrap(selection).begin <= Unwrap(selection).end

\* ------------------------------------------------------------------------
\* Scrolling
\* ------------------------------------------------------------------------
\* C17: from (whole, pixel) = (0, 0), the calls of scroll_impl made one after
\* another leave the (whole, pixel) that one call with the sum of their
\* deltas leaves.
C17_ScrollSequenceEqualsScrollBySum ==
    (scroll.start = 0 /\ scroll.n >= 1 /\ ~scroll.panicked /\ FitsI16(scroll.sum)) =>
        LET one == scroll_impl(0, 0, scroll.cell, scroll.sum, scroll.overflow_checks)
        IN  scroll.whole = one.whole /\ scroll.pixel = one.pixel

\* C18: a call of scroll_impl returns, keeps whole * cell + pixel + delta
\* (the absolute pixel position) and leaves whole >= 0.
C18_ScrollConservesPosition ==
    scroll.n >= 1 =>
        /\ ~scroll.panicked
        /\ scroll.whole * scroll.cell + scroll.pixel
              = scroll.pre.whole * scroll.cell + scroll.pre.pixel + scroll.by
        /\ scroll.whole >= 0

\* C19: after a scroll operation of a view each pixel offset is strictly
\* between -cell and +cell of its axis, or it is <= -cell with the whole
\* coordinate of the axis at 0.
C19_PixelRemainderWithinCell ==
    view.op # "none" =>
        /\ \/ (0 - view.col_w < view.pix_xoff /\ view.pix_xoff < view.col_w)
           \/ (view.pix_xoff <= 0 - view.col_w /\ view.col = 0)
        /\ \/ (0 - view.row_h < view.pix_yoff /\ view.pix_yoff < view.row_h)
           \/ (view.pix_yoff <= 0 - view.row_h /\ view.row = 0)

\* C20: row_col_offset_of_pos returns without a panic; what it returns is
\* None or a (row, col) within the perspective's bounds, and it is None for
\* a position outside the viewport rectangle.
C20_PosQueryNeverPanics ==
    hit.asked =>
        /\ hit.res.tag # "panic"
        /\ hit.res.tag = "some" => row_col_within_bound(hit.p, hit.res.rc[1], hit.res.rc[2])
        /\ (hit.x < hit.v.x \/ hit.y < hit.v.y
               \/ hit.x > hit.v.x + hit.v.w \/ hit.y > hit.v.y + hit.v.h)
              => hit.res.tag = "none"



\* ------------------------------------------------------------------------
\* Text entry and commit
\* ------------------------------------------------------------------------
IsHexDigitChar(c) == IsDigit(c) \/ IsLowerHex(c) \/ IsUpperHex(c)

\* C21: in a Hex view whose edit buffer is clean, with quick-edit off, two
\* hex digit characters d1 then d2 typed at the cursor commit the byte
\* 16 * value(d1) + value(d2) at the cursor offset, whatever byte was there
\* ('A' then '5' over 0x3F commit 0xA5).
C21_TwoHexDigitsCommitTheirByte ==
    (/\ kind = "Hex" /\ ~prefs.quick_edit
     /\ Len(typed.keys) = 2
     /\ \A i \in 1..2 : IsHexDigitChar(typed.keys[i]))
    => /\ last.commit
       /\ data[Unwrap(typed.pre).cursor + 1]
             = 16 * HexVal(typed.keys[1]) + HexVal(typed.keys[2])

\* C21, amended: the same for two characters out of 0-9 and a-f, the ones
\* a Hex view takes ('a' then '5' over 0x3F commit 0xA5).
C21_TwoLowerHexDigitsCommitTheirByte ==
    (/\ kind = "Hex" /\ ~prefs.quick_edit
     /\ Len(typed.keys) = 2
     /\ \A i \in 1..2 : IsDigit(typed.keys[i]) \/ IsLowerHex(typed.keys[i]))
    => /\ last.commit
       /\ data[Unwrap(typed.pre).cursor + 1]
             = 16 * HexVal(typed.keys[1]) + HexVal(typed.keys[2])

C21_Witness ==
    /\ kind = "Hex" /\ ~prefs.quick_edit
    /\ typed.keys = <<97, 53>>
    /\ last.commit
    /\ Unwrap(typed.pre).data[Unwrap(typed.pre).cursor + 1] = 63
    /\ data[Unwrap(typed.pre).cursor + 1] = 165

\* the edit buffer as reset_edit_buf leaves it
EditBufIsReset == edit_buf.cursor = 0 /\ ~edit_buf.dirty

\* C22: every commit moves the cursor forward by exactly one when sticky-edit
\* is not set and leaves it where it was when sticky-edit is set, and the
\* edit buffer is reset afterwards.
C22_CommitStepsCursorUnlessSticky ==
    last.commit =>
        /\ cursor = Unwrap(typed.pre).cursor + (IF prefs.sticky_edit THEN 0 ELSE 1)
        /\ EditBufIsReset

\* C22, amended: the cursor moves forward by one when sticky-edit is not set
\* and the commit was not at the last byte of the source; otherwise it stays.
C22_CommitStepsCursorUnlessStickyOrLast ==
    last.commit =>
        /\ cursor = Unwrap(typed.pre).cursor
                      + (IF ~prefs.sticky_edit /\ Unwrap(typed.pre).cursor + 1 < Len(data)
                         THEN 1 ELSE 0)
        /\ EditBufIsReset

C22_Witness ==
    /\ last.commit /\ ~prefs.sticky_edit
    /\ Unwrap(typed.pre).edit_buf.dirty
    /\ cursor = Unwrap(typed.pre).cursor + 1
    /\ EditBufIsReset

\* the last operation was a commit in a Dec view of three digits whose value
\* does not fit a byte (the buffer keeps its text when it is reset)
DecCommitFailed ==
    /\ kind = "Dec" /\ last.commit
    /\ (edit_buf.buf[1] - Chr0) * 100 + (edit_buf.buf[2] - Chr0) * 10
          + (edit_buf.buf[3] - Chr0) > 255

\* C23: a commit in a Dec view of a text whose value does not fit a byte
\* leaves the byte at the cursor and the dirty region as they were before
\* the commit, reports a warning and resets the edit buffer.
C23_FailedDecCommitChangesNothing ==
    DecCommitFailed =>
        /\ data = Unwrap(typed.pre).data
        /\ dirty_region = Unwrap(typed.pre).dirty
        /\ last.warn
        /\ EditBufIsReset

\* C23, amended: the dirty region is as before the commit unless auto-save is
\* on and the save that ends the commit succeeds, which clears it.
C23_FailedDecCommitOnlySaves ==
    DecCommitFailed =>
        /\ data = Unwrap(typed.pre).data
        /\ dirty_region = IF prefs.auto_save /\ last.res = "ok"
                          THEN None ELSE Unwrap(typed.pre).dirty
        /\ last.warn
        /\ EditBufIsReset

C23_Witness ==
    /\ DecCommitFailed /\ ~prefs.quick_edit
    /\ typed.keys = <<53, 53, 53>>
    /\ IsSome(dirty_region)
    /\ last.warn



\* ------------------------------------------------------------------------
\* The view's scroll operations: the end, the selected axes, the pixel range
\* ------------------------------------------------------------------------
\* C24: after scroll_to_end, from any scroll state, the perspective's final
\* row is the last row the view shows: row + rows() - 1 = last_row_idx()
\* when the perspective has at least rows() rows, and row = 0 otherwise.
C24_ScrollToEndShowsLastRowLast ==
    (view.op = "scroll_to_end" /\ ~view.panicked) =>
        IF last_row_idx(ViewPerspective) + 1 >= View_rows(view)
        THEN view.row + View_rows(view) - 1 = last_row_idx(ViewPerspective)
        ELSE view.row = 0


\* C25: scroll_to_byte_offset changes only the selected axes: with do_row
\* false the row and pix_yoff are unchanged, with do_col false the col and
\* pix_xoff are unchanged, and a selected axis is set to the row / col of the
\* offset with pixel remainder 0.
C25_OnlySelectedAxesChange ==
    [][\A offset \in 0..(ViewLen - 1), do_col \in BOOLEAN, do_row \in BOOLEAN :
          scroll_to_byte_offset(offset, do_col, do_row) =>
              LET rc == row_col_of_byte_offset(ViewPerspective, offset)
              IN  /\ do_row => view'.row = rc[1] /\ view'.pix_yoff = 0
                  /\ do_col => view'.col = rc[2] /\ view'.pix_xoff = 0
                  /\ ~do_row => view'.row = view.row /\ view'.pix_yoff = view.pix_yoff
                  /\ ~do_col => view'.col = view.col /\ view'.pix_xoff = view.pix_xoff]_vars


\* C30: in no call of scroll_impl made by scroll_x, scroll_y and the page
\* scrolls does the pixel remainder leave the i16 range, negative scrolling
\* with the whole coordinate at 0 included.
C30_PixelRemainderFitsI16 ==
    scroll.n >= 1 =>
        /\ ~scroll.panicked
        /\ FitsI16(scroll.pre.pixel + scroll.by)



\* ------------------------------------------------------------------------
\* The file, the tracker and the cursor across edits, saves and loads
\* ------------------------------------------------------------------------
\* C26: after a save that succeeded on a file opened read-write, whatever
\* commits, u8 entries and fills came before, the file from hard_seek on
\* equals the buffer byte for byte over the buffer's length.
C26_SavedFileEqualsBuffer ==
    (last.op = "save" /\ last.res = "ok" /\ ~args.read_only) =>
        /\ IsSome(file)
        /\ \A i \in 1..Len(data) :
              /\ HardSeek(args) + i <= Len(files[Unwrap(file)])
              /\ files[Unwrap(file)][HardSeek(args) + i] = data[i]

C26_Witness ==
    /\ last.op = "save" /\ last.res = "ok" /\ ~args.read_only
    /\ IsSome(last.wrote)
    /\ Unwrap(last.wrote).pos > HardSeek(args)
    /\ Unwrap(last.pre).files # files
    /\ Len(data) = FileLen


\* C27: whenever the dirty region is Some(r), r.end < data.len(), in every
\* state reached by edits, fills, saves, reloads, loads and closes; so save
\* never slices the buffer out of bounds.
C27_DirtyRegionWithinBuffer ==
    (~panicked /\ IsSome(dirty_region)) => Unwrap(dirty_region).end < Len(data)

\* C28: while a non-empty source is loaded the cursor is an offset of it
\* (cursor < source_len()), so the byte read and written at the cursor by
\* text entry and commit is never out of bounds.
C28_CursorWithinSource ==
    (~panicked /\ Len(data) > 0) => cursor < Len(data)

\* ------------------------------------------------------------------------
\* The find dialog
\* ------------------------------------------------------------------------
\* C29: after any searches and Previous / Next steps, result_cursor is an
\* index of result_offsets whenever result_offsets is not empty, and
\* Previous and Next never index past the end of the list.
C29_ResultCursorWithinResults ==
    /\ (~find.panicked /\ Len(find.result_offsets) > 0)
           => find.result_cursor < Len(find.result_offsets)
    /\ find.op \in {"previous", "next"} => ~find.panicked


====
